---- MODULE Spec2Model ----
(***************************************************************************)
(* Two-stage deduplication engine of the strike-report pipeline:           *)
(*   stage 1  filter_and_extract._cross_channel_dedup  (raw messages)      *)
(*   stage 2  dedup.deduplicate                        (incident records)  *)
(*                                                                         *)
(* Python strings are sequences of Unicode code points (ord), so that      *)
(* lower(), translate(), isalnum(), split(), slicing, "in" and the string  *)
(* order used by sort() are computed, character by character, as Python    *)
(* computes them.  A dict is a function from its field names to tagged     *)
(* values; an absent key holds Missing, a JSON null holds None.            *)
(***************************************************************************)
EXTENDS Integers, Sequences, FiniteSets, TLC

VARIABLES
    pc,            \* position of the running invocation
    run,           \* 1: first call of deduplicate, 2: call on its own output
    batch,         \* the caller's list handed to deduplicate (first call)
    incidents,     \* deduplicate: local list after the low filter and the sort
    parent,        \* deduplicate: union-find parent array (0-based indices)
    weak_indices,  \* deduplicate: indices merged via region-only match
    unioned,       \* deduplicate: the pairs (i, j) union(i, j) was called for
    i, j,          \* deduplicate: loop counters of the pair scan
    clusters,      \* deduplicate: root -> list of member indices, in dict order
    deduplicated,  \* deduplicate: returned list
    first_out,     \* what the first call returned (kept by the caller)
    messages,      \* _cross_channel_dedup: the caller's message list
    msg_clusters,  \* _cross_channel_dedup: per day, the clusters of positions
    result,        \* _cross_channel_dedup: returned list
    pair,          \* harness: the two records or texts handed to the functions
    verdict,       \* harness: what the functions returned
    futures,       \* extract_incidents: per batch, the _send_batch call submitted
    outfile,       \* extract_incidents: the lines of incidents.jsonl
    all_incidents, \* extract_incidents: collected (and returned) list
    completed_count \* extract_incidents: batches collected without exception

vars == <<pc, run, batch, incidents, parent, weak_indices, unioned, i, j,
          clusters, deduplicated, first_out, messages, msg_clusters, result,
          pair, verdict, futures, outfile, all_incidents, completed_count>>

---------------------------------------------------------------------------
(* Python values *)

Missing == [t |-> "missing", s |-> <<>>, n |-> 0]
None == [t |-> "none", s |-> <<>>, n |-> 0]
Str(s) == [t |-> "str", s |-> s, n |-> 0]
Num(n) == [t |-> "num", s |-> <<>>, n |-> n]
Bool(b) == [t |-> "bool", s |-> <<>>, n |-> IF b THEN 1 ELSE 0]

\* dict.get(k, default)
Get(d, k, default) == IF d[k].t = "missing" THEN default ELSE d[k]

\* bool(v)
Truthy(v) ==
    CASE v.t = "str" -> v.s # <<>>
      [] v.t = "num" -> v.n # 0
      [] v.t = "bool" -> v.n = 1
      [] OTHER -> FALSE

\* v or default
OrElse(v, default) == IF Truthy(v) THEN v ELSE default

\* the list [e(1), ..., e(n)], with its elements computed once
ListOf(n, e(_)) == SubSeq([k \in 1..n |-> e(k)], 1, n)

MinOf(S) == CHOOSE x \in S : \A y \in S : x <= y
MaxOf(S) == CHOOSE x \in S : \A y \in S : x >= y

---------------------------------------------------------------------------
(* Python str operations on code-point sequences *)

\* a < b for str: first differing code point, else the shorter is smaller
StrLess(a, b) ==
    LET n == IF Len(a) < Len(b) THEN Len(a) ELSE Len(b)
        diff == {k \in 1..n : a[k] # b[k]}
    IN  IF diff = {} THEN Len(a) < Len(b)
        ELSE a[MinOf(diff)] < b[MinOf(diff)]

StrLeq(a, b) == a = b \/ StrLess(a, b)

\* x in y
IsSubstr(x, y) ==
    \E k \in 0..(Len(y) - Len(x)) : SubSeq(y, k + 1, k + Len(x)) = x

\* s[:n]
Prefix(s, n) == SubSeq(s, 1, IF Len(s) < n THEN Len(s) ELSE n)

\* s.startswith(p)
StartsWith(s, p) == Len(p) <= Len(s) /\ SubSeq(s, 1, Len(p)) = p

IsDigit(c) == c \in 48..57
IsSpace(c) == c \in 9..13 \/ c \in 28..32 \/ c = 133 \/ c = 160
\* c.isalnum(): ASCII digits and letters, Cyrillic letters
IsAlnum(c) ==
    \/ c \in 48..57 \/ c \in 65..90 \/ c \in 97..122
    \/ c \in 1024..1153 \/ c \in 1162..1279

\* c.lower(): ASCII, Cyrillic capitals, Ghe with upturn
LowerChar(c) ==
    CASE c \in 65..90 -> c + 32
      [] c \in 1040..1071 -> c + 32
      [] c \in 1024..1039 -> c + 80
      [] c = 1168 -> 1169
      [] OTHER -> c

Lower(s) == ListOf(Len(s), LAMBDA k : LowerChar(s[k]))

RECURSIVE Concat(_)
Concat(ss) == IF ss = <<>> THEN <<>> ELSE Head(ss) \o Concat(Tail(ss))

RECURSIVE LStrip(_)
LStrip(s) == IF s # <<>> /\ IsSpace(s[1]) THEN LStrip(Tail(s)) ELSE s

RECURSIVE RStrip(_)
RStrip(s) ==
    IF s # <<>> /\ IsSpace(s[Len(s)]) THEN RStrip(SubSeq(s, 1, Len(s) - 1)) ELSE s

\* s.strip()
Strip(s) == RStrip(LStrip(s))

\* s.split(): the maximal runs of non-whitespace, in order
RECURSIVE SplitFrom(_, _, _)
SplitFrom(s, cur, acc) ==
    IF s = <<>> THEN (IF cur = <<>> THEN acc ELSE Append(acc, cur))
    ELSE IF IsSpace(s[1])
         THEN SplitFrom(Tail(s), <<>>, IF cur = <<>> THEN acc ELSE Append(acc, cur))
         ELSE SplitFrom(Tail(s), Append(cur, s[1]), acc)

Split(s) == SplitFrom(s, <<>>, <<>>)

\* s.split(sep) for a non-empty separator: pieces may be empty
RECURSIVE SplitSepFrom(_, _, _, _)
SplitSepFrom(s, sep, cur, acc) ==
    IF s = <<>> THEN Append(acc, cur)
    ELSE IF StartsWith(s, sep)
         THEN SplitSepFrom(SubSeq(s, Len(sep) + 1, Len(s)), sep, <<>>, Append(acc, cur))
         ELSE SplitSepFrom(Tail(s), sep, Append(cur, s[1]), acc)

SplitSep(s, sep) == SplitSepFrom(s, sep, <<>>, <<>>)

\* sep.join(parts)
RECURSIVE Join(_, _)
Join(sep, parts) ==
    IF parts = <<>> THEN <<>>
    ELSE IF Len(parts) = 1 THEN parts[1]
    ELSE parts[1] \o sep \o Join(sep, Tail(parts))

\* _TRANSLIT: Cyrillic -> Latin, apostrophes removed
_TRANSLIT(c) ==
    CASE c = 1072 -> <<97>>          [] c = 1073 -> <<98>>
      [] c = 1074 -> <<118>>         [] c = 1075 -> <<103>>
      [] c = 1076 -> <<100>>         [] c = 1077 -> <<101>>
      [] c = 1105 -> <<101>>         [] c = 1078 -> <<122, 104>>
      [] c = 1079 -> <<122>>         [] c = 1080 -> <<105>>
      [] c = 1081 -> <<121>>         [] c = 1082 -> <<107>>
      [] c = 1083 -> <<108>>         [] c = 1084 -> <<109>>
      [] c = 1085 -> <<110>>         [] c = 1086 -> <<111>>
      [] c = 1087 -> <<112>>         [] c = 1088 -> <<114>>
      [] c = 1089 -> <<115>>         [] c = 1090 -> <<116>>
      [] c = 1091 -> <<117>>         [] c = 1092 -> <<102>>
      [] c = 1093 -> <<107, 104>>    [] c = 1094 -> <<116, 115>>
      [] c = 1095 -> <<99, 104>>     [] c = 1096 -> <<115, 104>>
      [] c = 1097 -> <<115, 104, 99, 104>>
      [] c = 1098 -> <<>>            [] c = 1099 -> <<121>>
      [] c = 1100 -> <<>>            [] c = 1101 -> <<101>>
      [] c = 1102 -> <<121, 117>>    [] c = 1103 -> <<121, 97>>
      [] c = 1110 -> <<105>>         [] c = 1111 -> <<121, 105>>
      [] c = 1108 -> <<121, 101>>    [] c = 1169 -> <<103>>
      [] c = 39 -> <<>>              [] c = 700 -> <<>>
      [] c = 96 -> <<>>
      [] OTHER -> <<c>>

\* s.translate(_TRANSLIT)
Translate(s) == Concat(ListOf(Len(s), LAMBDA k : _TRANSLIT(s[k])))

\* "".join(c if c.isalnum() or c == " " else "" for c in s)
KeepAlnumSpace(s) == SelectSeq(s, LAMBDA c : IsAlnum(c) \/ c = 32)

\* dedup._normalize: lowercase, transliterate Cyrillic, strip punctuation
_normalize(v) ==
    IF ~Truthy(v) THEN <<>>
    ELSE Join(<<32>>, Split(KeepAlnumSpace(Translate(Strip(Lower(v.s))))))

---------------------------------------------------------------------------
(* datetime.strptime(date_str[:10], "%Y-%m-%d") *)

DigitsValue(s) ==
    IF Len(s) = 1 THEN s[1] - 48 ELSE (s[1] - 48) * 10 + (s[2] - 48)

IsLeap(y) == (y % 4 = 0 /\ y % 100 # 0) \/ y % 400 = 0

DaysInMonth(y, m) ==
    IF m = 2 THEN (IF IsLeap(y) THEN 29 ELSE 28)
    ELSE IF m \in {4, 6, 9, 11} THEN 30 ELSE 31

RECURSIVE DaysBeforeMonth(_, _)
DaysBeforeMonth(y, m) ==
    IF m = 1 THEN 0 ELSE DaysBeforeMonth(y, m - 1) + DaysInMonth(y, m - 1)

\* date.toordinal()
ToOrdinal(y, m, d) ==
    (y - 1) * 365 + ((y - 1) \div 4) - ((y - 1) \div 100) + ((y - 1) \div 400)
        + DaysBeforeMonth(y, m) + d

\* %m as the regex 1[0-2]|0[1-9]|[1-9]: length of the first alternative that
\* matches at the head of s and is followed by "-", else 0
MonthLen(s) ==
    IF Len(s) >= 3 /\ s[3] = 45
        /\ ((s[1] = 49 /\ s[2] \in 48..50) \/ (s[1] = 48 /\ s[2] \in 49..57))
    THEN 2
    ELSE IF Len(s) >= 2 /\ s[2] = 45 /\ s[1] \in 49..57 THEN 1 ELSE 0

\* %d as the regex 3[0-1]|[1-2]\d|0[1-9]|[1-9]| [1-9]: the first alternative
\* that matches at the head of s; nothing may follow it
DayValue(s) ==
    IF Len(s) >= 2
        /\ ((s[1] = 51 /\ s[2] \in 48..49) \/ (s[1] \in 49..50 /\ IsDigit(s[2]))
            \/ (s[1] = 48 /\ s[2] \in 49..57))
    THEN (IF Len(s) = 2 THEN DigitsValue(s) ELSE 0)
    ELSE IF Len(s) >= 1 /\ s[1] \in 49..57
    THEN (IF Len(s) = 1 THEN DigitsValue(s) ELSE 0)
    ELSE IF Len(s) = 2 /\ s[1] = 32 /\ s[2] \in 49..57 THEN s[2] - 48 ELSE 0

NoDate == [ok |-> FALSE, ord |-> 0]

Strptime(s) ==
    IF ~(Len(s) >= 5 /\ (\A k \in 1..4 : IsDigit(s[k])) /\ s[5] = 45) THEN NoDate
    ELSE LET y == (s[1] - 48) * 1000 + (s[2] - 48) * 100 + (s[3] - 48) * 10 + (s[4] - 48)
             rest == SubSeq(s, 6, Len(s))
             ml == MonthLen(rest)
         IN  IF y = 0 \/ ml = 0 THEN NoDate
             ELSE LET m == DigitsValue(SubSeq(rest, 1, ml))
                      d == DayValue(SubSeq(rest, ml + 2, Len(rest)))
                  IN  IF d = 0 \/ d > DaysInMonth(y, m) THEN NoDate
                      ELSE [ok |-> TRUE, ord |-> ToOrdinal(y, m, d)]

\* dedup._parse_date
_parse_date(v) == IF ~Truthy(v) THEN NoDate ELSE Strptime(Prefix(v.s, 10))

---------------------------------------------------------------------------
(* dedup._haversine_km in fixed point.  A coordinate is held in hundredths *)
(* of a degree (45.04 is Num(4504)); angles and the values of sin and cos  *)
(* are integers scaled by Scale; products are taken in two halves so that  *)
(* no intermediate value leaves the 32-bit range.                          *)

Half == 10000
Scale == Half * Half

Abs(x) == IF x < 0 THEN -x ELSE x

\* a * b / Scale for 0 <= a, b <= 4 * Scale
MulFx(a, b) ==
    LET ah == a \div Half  al == a % Half
        bh == b \div Half  bl == b % Half
    IN  ah * bh + ((ah * bl + al * bh) \div Half) + ((al * bl) \div Scale)

PiFx == 314159265
HalfPiFx == 157079633

\* math.radians of c hundredths of a degree: c * pi / 18000
Radians(c) ==
    LET m == Abs(c)
        r == m * 17453 + ((m * 29252) \div 100000)
    IN  IF c < 0 THEN -r ELSE r

\* sin x for 0 <= x <= pi/2 (Taylor series to x^13, Horner form)
SinQ(x) ==
    LET x2 == MulFx(x, x)
        t6 == Scale - (x2 \div 156)
        t5 == Scale - MulFx(x2 \div 110, t6)
        t4 == Scale - MulFx(x2 \div 72, t5)
        t3 == Scale - MulFx(x2 \div 42, t4)
        t2 == Scale - MulFx(x2 \div 20, t3)
        t1 == Scale - MulFx(x2 \div 6, t2)
    IN  MulFx(x, t1)

\* sin(x) ** 2 for |x| <= pi
SinSq(x) ==
    LET m == Abs(x)
        q == IF m > HalfPiFx THEN PiFx - m ELSE m
        v == SinQ(IF q < 0 THEN 0 ELSE q)
    IN  MulFx(v, v)

\* cos x for |x| <= pi/2
Cos(x) == SinQ(HalfPiFx - (IF Abs(x) > HalfPiFx THEN HalfPiFx ELSE Abs(x)))

\* the haversine term a of two points given in hundredths of a degree
HaversineA(lat1, lon1, lat2, lon2) ==
    LET dlat == Radians(lat2 - lat1)
        dlon == Radians(lon2 - lon1)
    IN  SinSq(dlat \div 2)
          + MulFx(MulFx(Cos(Radians(lat1)), Cos(Radians(lat2))), SinSq(dlon \div 2))

R == 6371

\* sin(d / 2R) ** 2 for a distance of d km: the haversine term of that distance
TermOfKm(d) == SinSq(d * 7848 + ((d * 604) \div 10000))

\* R * 2 * atan2(sqrt(a), sqrt(1 - a)) rounded down to whole km: the distance is
\* increasing in a, so it is the largest d whose own term does not exceed a
RECURSIVE KmOfTerm(_, _, _)
KmOfTerm(a, lo, hi) ==
    IF lo = hi THEN lo
    ELSE LET mid == (lo + hi + 1) \div 2
         IN  IF TermOfKm(mid) <= a THEN KmOfTerm(a, mid, hi)
             ELSE KmOfTerm(a, lo, mid - 1)

\* dedup._haversine_km, in whole km
_haversine_km(lat1, lon1, lat2, lon2) ==
    KmOfTerm(HaversineA(lat1, lon1, lat2, lon2), 0, ((PiFx \div Half + 1) * R) \div Half)

---------------------------------------------------------------------------
(* String constants of the program *)

s_other == <<111, 116, 104, 101, 114>>                                  \* "other"
s_low == <<108, 111, 119>>                                              \* "low"
s_medium == <<109, 101, 100, 105, 117, 109>>                            \* "medium"
s_high == <<104, 105, 103, 104>>                                        \* "high"
s_None == <<78, 111, 110, 101>>                                         \* "None"
s_True == <<84, 114, 117, 101>>                                         \* "True"
s_False == <<70, 97, 108, 115, 101>>                                    \* "False"
s_true == <<116, 114, 117, 101>>                                        \* "true"
s_military_base == <<109, 105, 108, 105, 116, 97, 114, 121, 95, 98, 97, 115, 101>>
s_command_post == <<99, 111, 109, 109, 97, 110, 100, 95, 112, 111, 115, 116>>
s_fuel_depot == <<102, 117, 101, 108, 95, 100, 101, 112, 111, 116>>
s_oil_refinery == <<111, 105, 108, 95, 114, 101, 102, 105, 110, 101, 114, 121>>
CommaSpace == <<44, 32>>                                                \* ", "
SemiSpace == <<59, 32>>                                                 \* "; "
Empty == Str(<<>>)                                                      \* ""

RECURSIVE IntToStr(_)
IntToStr(n) ==
    IF n < 0 THEN <<45>> \o IntToStr(-n)
    ELSE IF n < 10 THEN <<48 + n>>
    ELSE IntToStr(n \div 10) \o <<48 + (n % 10)>>

\* str(v)
PyStr(v) ==
    CASE v.t = "str" -> v.s
      [] v.t = "none" -> s_None
      [] v.t = "bool" -> (IF v.n = 1 THEN s_True ELSE s_False)
      [] v.t = "num" -> IntToStr(v.n)
      [] OTHER -> <<>>

\* list.sort / sorted over positions 1..n: Less(m, k) compares the keys of two
\* positions; equal keys keep their order (the sort is stable).  The result
\* lists the positions in sorted order.
StableSort(n, Less(_, _)) ==
    LET rank(k) == Cardinality({m \in 1..n : Less(m, k) \/ (~Less(k, m) /\ m < k)}) + 1
    IN  ListOf(n, LAMBDA p : CHOOSE k \in 1..n : rank(k) = p)

\* sorted(S) for a set of str
SortedStrs(S) ==
    ListOf(Cardinality(S),
           LAMBDA p : CHOOSE x \in S : Cardinality({y \in S : StrLess(y, x)}) = p - 1)

\* list(dict.fromkeys(seq)): first occurrences, in order
RECURSIVE Dedupe(_)
Dedupe(seq) ==
    IF seq = <<>> THEN <<>>
    ELSE LET init == Dedupe(SubSeq(seq, 1, Len(seq) - 1))
             x == seq[Len(seq)]
         IN  IF \E k \in 1..Len(init) : init[k] = x THEN init ELSE Append(init, x)

---------------------------------------------------------------------------
(* dedup.py: the Incident Matcher *)

RadiusKm == 50
MaxDays == 2

\* float(v): numbers convert; the str coordinates of the model are
\* non-numeric text, for which float raises ValueError
FloatRaises(v) == v.t # "num"

\* lines 59-69: both have coordinates and they are less than 50 km apart
CoordsMatch(a, b) ==
    /\ Truthy(Get(a, "latitude", None)) /\ Truthy(Get(a, "longitude", None))
    /\ Truthy(Get(b, "latitude", None)) /\ Truthy(Get(b, "longitude", None))
    /\ ~FloatRaises(a["latitude"]) /\ ~FloatRaises(a["longitude"])
    /\ ~FloatRaises(b["latitude"]) /\ ~FloatRaises(b["longitude"])
    /\ _haversine_km(a["latitude"].n, a["longitude"].n,
                     b["latitude"].n, b["longitude"].n) < RadiusKm

\* a faulty variant of CityMatch: the substring test in one direction only
CityMatchOneWay(a, b) ==
    LET city_a == _normalize(Get(a, "city", Empty))
        city_b == _normalize(Get(b, "city", Empty))
    IN  /\ city_a # <<>> /\ city_b # <<>>
        /\ \/ city_a = city_b
           \/ IsSubstr(city_a, city_b)
           \/ (Len(city_a) >= 5 /\ Len(city_b) >= 5
                  /\ Prefix(city_a, 5) = Prefix(city_b, 5))

\* lines 71-84: normalized cities equal, one inside the other, or same first 5
CityMatch(a, b) ==
    LET city_a == _normalize(Get(a, "city", Empty))
        city_b == _normalize(Get(b, "city", Empty))
    IN  /\ city_a # <<>> /\ city_b # <<>>
        /\ \/ city_a = city_b
           \/ IsSubstr(city_a, city_b) \/ IsSubstr(city_b, city_a)
           \/ (Len(city_a) >= 5 /\ Len(city_b) >= 5
                  /\ Prefix(city_a, 5) = Prefix(city_b, 5))

\* lines 86-94: same region and similar facility name
RegionFacilityMatch(a, b) ==
    LET region_a == _normalize(Get(a, "region", Empty))
        region_b == _normalize(Get(b, "region", Empty))
        facility_a == _normalize(Get(a, "facility_name", Empty))
        facility_b == _normalize(Get(b, "facility_name", Empty))
    IN  /\ region_a # <<>> /\ region_b # <<>> /\ region_a = region_b
        /\ facility_a # <<>> /\ facility_b # <<>>
        /\ (IsSubstr(facility_a, facility_b) \/ IsSubstr(facility_b, facility_a))

_locations_match(a, b) ==
    CoordsMatch(a, b) \/ CityMatch(a, b) \/ RegionFacilityMatch(a, b)

\* a faulty variant of _locations_weak_match: refuses as soon as either
\* record names a facility
WeakMatchRefusesAnyFacility(a, b) ==
    LET city_a == _normalize(Get(a, "city", Empty))
        city_b == _normalize(Get(b, "city", Empty))
        region_a == _normalize(Get(a, "region", Empty))
        region_b == _normalize(Get(b, "region", Empty))
        facility_a == _normalize(Get(a, "facility_name", Empty))
        facility_b == _normalize(Get(b, "facility_name", Empty))
    IN  IF city_a # <<>> \/ city_b # <<>> THEN FALSE
        ELSE IF region_a = <<>> \/ region_b = <<>> \/ region_a # region_b THEN FALSE
        ELSE IF facility_a # <<>> \/ facility_b # <<>> THEN FALSE
        ELSE TRUE

_locations_weak_match(a, b) ==
    LET city_a == _normalize(Get(a, "city", Empty))
        city_b == _normalize(Get(b, "city", Empty))
        region_a == _normalize(Get(a, "region", Empty))
        region_b == _normalize(Get(b, "region", Empty))
        facility_a == _normalize(Get(a, "facility_name", Empty))
        facility_b == _normalize(Get(b, "facility_name", Empty))
    IN  IF city_a # <<>> \/ city_b # <<>> THEN FALSE
        ELSE IF region_a = <<>> \/ region_b = <<>> \/ region_a # region_b THEN FALSE
        ELSE IF facility_a # <<>> /\ facility_b # <<>>
                 /\ ~(IsSubstr(facility_a, facility_b) \/ IsSubstr(facility_b, facility_a))
             THEN FALSE
        ELSE TRUE

_COMPATIBLE_TYPES ==
    {{s_military_base, s_command_post}, {s_fuel_depot, s_oil_refinery}}

\* (d.get("target_type") or "other").lower()
TargetTypeOf(d) == Lower(OrElse(Get(d, "target_type", None), Str(s_other)).s)

\* a faulty variant of _same_target_type: a near-synonym group that holds
\* either type is enough
SameTargetTypeEitherInGroup(a, b) ==
    LET ta == TargetTypeOf(a)
        tb == TargetTypeOf(b)
    IN  \/ ta = tb
        \/ ta = s_other \/ tb = s_other
        \/ \E group \in _COMPATIBLE_TYPES : ta \in group \/ tb \in group

_same_target_type(a, b) ==
    LET ta == TargetTypeOf(a)
        tb == TargetTypeOf(b)
    IN  \/ ta = tb
        \/ ta = s_other \/ tb = s_other
        \/ \E group \in _COMPATIBLE_TYPES : ta \in group /\ tb \in group

_event_dates_close(a, b) ==
    LET da == _parse_date(Get(a, "date", Empty))
        db == _parse_date(Get(b, "date", Empty))
    IN  da.ok /\ db.ok /\ Abs(da.ord - db.ord) <= MaxDays

---------------------------------------------------------------------------
(* dedup._merge_cluster *)

\* the keys a record may hold; an IncidentRecord is a function on Fields
Fields ==
    {"date", "city", "region", "facility_name", "target_type", "damage_summary",
     "latitude", "longitude", "confidence", "maritime", "source_channel",
     "message_date", "source_message_id", "original_text",
     "last_event_date", "first_message_date", "last_message_date",
     "dedup_note", "_source_channels"}

\* a faulty variant of ConfRank: every confidence ranks alike, so max() and
\* the stable sort keep the cluster order
ConfRankFlat(x) == 0

\* conf_order.get(str(x.get("confidence", "low")).lower(), 0)
ConfRank(x) ==
    LET c == Lower(PyStr(Get(x, "confidence", Str(s_low))))
    IN  IF c = s_high THEN 3 ELSE IF c = s_medium THEN 2 ELSE IF c = s_low THEN 1 ELSE 0

\* a faulty variant of SummaryLen: the sort key of line 160 is constant, so
\* the cluster keeps its order and its first member is the base
SummaryLenIgnored(x) == 0

\* len(x.get("damage_summary", "") or "")
SummaryLen(x) == Len(OrElse(Get(x, "damage_summary", Empty), Empty).s)

\* the truthy values of field k over the cluster, as a set of str
TruthyStrs(cluster, k) ==
    {cluster[m][k].s : m \in {q \in 1..Len(cluster) : Truthy(Get(cluster[q], k, Empty))}}

Range(seq) == {seq[k] : k \in 1..Len(seq)}

\* a faulty variant of ChannelsOf: only the base record's source_channel is
\* read
ChannelsOfBase(cluster) ==
    {Strip(piece) : piece \in
        Range(SplitSep(OrElse(Get(cluster[1], "source_channel", None), Empty).s,
                       CommaSpace))} \ {<<>>}

\* lines 183-188: the stripped non-empty pieces of every source_channel
ChannelsOf(cluster) ==
    UNION { {Strip(piece) : piece \in
                Range(SplitSep(OrElse(Get(cluster[m], "source_channel", None), Empty).s,
                               CommaSpace))}
            : m \in 1..Len(cluster) } \ {<<>>}

\* lines 210-214: str(mid) of every truthy source_message_id, in cluster order
RECURSIVE MsgIds(_)
MsgIds(cluster) ==
    IF cluster = <<>> THEN <<>>
    ELSE LET mid == Get(Head(cluster), "source_message_id", Empty)
         IN  (IF Truthy(mid) THEN <<PyStr(mid)>> ELSE <<>>) \o MsgIds(Tail(cluster))

_merge_cluster(cluster0) ==
    LET n == Len(cluster0)
        \* cluster.sort(key=len(damage_summary), reverse=True)
        bySummary == StableSort(n, LAMBDA a, b : SummaryLen(cluster0[a]) > SummaryLen(cluster0[b]))
        cluster == ListOf(n, LAMBDA k : cluster0[bySummary[k]])
        base == cluster[1]
        event_dates == TruthyStrs(cluster, "date")
        msg_dates == TruthyStrs(cluster, "message_date")
        earliest(S) == CHOOSE x \in S : \A y \in S : StrLeq(x, y)
        latest(S) == CHOOSE x \in S : \A y \in S : StrLeq(y, x)
        \* max(cluster, key=...): the first member of the highest rank
        best_conf == cluster[MinOf({k \in 1..n : \A m \in 1..n :
                                        ConfRank(cluster[m]) <= ConfRank(cluster[k])})]
        byConf == StableSort(n, LAMBDA a, b : ConfRank(cluster[a]) > ConfRank(cluster[b]))
        withCoords == {k \in 1..n : /\ Truthy(Get(cluster[byConf[k]], "latitude", None))
                                    /\ Truthy(Get(cluster[byConf[k]], "longitude", None))}
        coordSrc == cluster[byConf[MinOf(withCoords)]]
        maritime == \E k \in 1..n : Get(cluster[k], "maritime", None) \in {Bool(TRUE), Str(s_true)}
        dateOr(S, pick(_), f) == IF S # {} THEN Str(pick(S)) ELSE base[f]
    IN  [date |-> dateOr(event_dates, earliest, "date"),
         last_event_date |-> dateOr(event_dates, latest, "last_event_date"),
         first_message_date |-> dateOr(msg_dates, earliest, "first_message_date"),
         last_message_date |-> dateOr(msg_dates, latest, "last_message_date"),
         source_channel |-> Str(Join(CommaSpace, SortedStrs(ChannelsOf(cluster)))),
         confidence |-> Get(best_conf, "confidence", Str(s_low)),
         latitude |-> IF withCoords # {} THEN coordSrc["latitude"] ELSE base["latitude"],
         longitude |-> IF withCoords # {} THEN coordSrc["longitude"] ELSE base["longitude"],
         maritime |-> Bool(maritime),
         source_message_id |-> Str(Join(SemiSpace, Dedupe(MsgIds(cluster)))),
         \* merged.pop("_source_channels"), merged.pop("message_date")
         _source_channels |-> Missing,
         message_date |-> Missing,
         \* the rest is the base record's: merged = dict(cluster[0])
         city |-> base["city"],
         region |-> base["region"],
         facility_name |-> base["facility_name"],
         target_type |-> base["target_type"],
         damage_summary |-> base["damage_summary"],
         original_text |-> base["original_text"],
         dedup_note |-> base["dedup_note"]]

---------------------------------------------------------------------------
(* dedup.deduplicate *)

WindowDays == 2

note_head == <<77, 101, 114, 103, 101, 100, 32>>                        \* "Merged "
\* " rows by region only (no city/coordinates) - verify this is a single
\* incident", the dash being U+2014
note_tail ==
    <<32, 114, 111, 119, 115, 32, 98, 121, 32, 114, 101, 103, 105, 111, 110, 32, 111,
      110, 108, 121, 32, 40, 110, 111, 32, 99, 105, 116, 121, 47, 99, 111, 111, 114,
      100, 105, 110, 97, 116, 101, 115, 41, 32, 8212, 32, 118, 101, 114, 105, 102, 121,
      32, 116, 104, 105, 115, 32, 105, 115, 32, 97, 32, 115, 105, 110, 103, 108, 101,
      32, 105, 110, 99, 105, 100, 101, 110, 116>>

\* a faulty variant of Retained: the confidence is compared as it is spelled
RetainedUnlessSpelledLow(x) == PyStr(Get(x, "confidence", Empty)) # s_low

\* str(i.get("confidence", "")).lower() != "low"
Retained(x) == Lower(PyStr(Get(x, "confidence", Empty))) # s_low

\* the sort key x.get("date", "")
DateKey(x) == Get(x, "date", Empty)

\* list.sort compares the keys pairwise with <, which raises TypeError as soon
\* as a key that is not a str takes part
SortRaises(list) ==
    Len(list) >= 2 /\ \E k \in 1..Len(list) : DateKey(list[k]).t # "str"

\* list.sort(key=lambda x: x.get("date", ""))
SortByDate(list) ==
    LET perm == StableSort(Len(list),
                    LAMBDA a, b : StrLess(DateKey(list[a]).s, DateKey(list[b]).s))
    IN  ListOf(Len(list), LAMBDA k : list[perm[k]])

\* incidents[k] for a Python (0-based) index
At(list, k) == list[k + 1]

\* find(x), with its path halving: the root and the parent array it leaves
RECURSIVE find(_, _)
find(p, x) ==
    IF p[x] = x THEN [root |-> x, parent |-> p]
    ELSE LET p2 == [p EXCEPT ![x] = p[p[x]]]
         IN  find(p2, p2[x])

\* union(x, y): the parent array it leaves
union(p, x, y) ==
    LET fx == find(p, x)
        fy == find(fx.parent, y)
    IN  IF fx.root # fy.root THEN [fy.parent EXCEPT ![fx.root] = fy.root]
        ELSE fy.parent

\* the next (i, j) of "for i in range(n): for j in range(i + 1, n)" from a
\* candidate position, or the end of the outer loop
RECURSIVE LoopPos(_, _, _)
LoopPos(n, i0, j0) ==
    IF i0 >= n THEN [pc |-> "group", i |-> n, j |-> n]
    ELSE IF j0 < n THEN [pc |-> "scan", i |-> i0, j |-> j0]
    ELSE LoopPos(n, i0 + 1, i0 + 2)

\* lines 239-256: the sort, the union-find and the first loop position
Prepared(kept, pos) ==
    IF SortRaises(kept)
    THEN [pc |-> "raised", incidents |-> kept, parent |-> <<>>, i |-> 0, j |-> 0]
    ELSE [pc |-> pos.pc, incidents |-> SortByDate(kept),
          parent |-> [k \in 0..(Len(kept) - 1) |-> k], i |-> pos.i, j |-> pos.j]

\* lines 228-256: the empty batch, the low filter, the sort, the union-find
Start(input) ==
    IF input = <<>>
    THEN [pc |-> "done", incidents |-> <<>>, parent |-> <<>>, i |-> 0, j |-> 0]
    ELSE Prepared(SelectSeq(input, Retained),
                  LoopPos(Len(SelectSeq(input, Retained)), 0, 1))

\* lines 259-262: the inner scan stops at the first j more than 2 days after i
ScanBreaks(a, b) ==
    LET di == _parse_date(Get(a, "date", Empty))
        dj == _parse_date(Get(b, "date", Empty))
    IN  di.ok /\ dj.ok /\ dj.ord - di.ord > WindowDays

\* a faulty variant of PairEligible: the target types are not compared
PairEligibleByDateOnly(a, b) == _event_dates_close(a, b)

\* lines 263-266: the pair passes the date and type checks
PairEligible(a, b) == _event_dates_close(a, b) /\ _same_target_type(a, b)

\* lines 267-272: what the pair (i, j) does to the union-find
PairVerdict(a, b) ==
    IF ScanBreaks(a, b) THEN "break"
    ELSE IF ~PairEligible(a, b) THEN "skip"
    ELSE IF _locations_match(a, b) THEN "strong"
    ELSE IF _locations_weak_match(a, b) THEN "weak"
    ELSE "none"

\* the next loop position after the pair (i, j) gave the verdict v
NextPos(n, i0, j0, v) ==
    IF v = "break" THEN LoopPos(n, i0 + 1, i0 + 2) ELSE LoopPos(n, i0, j0 + 1)

\* a faulty variant of Unite: every union marks its pair as weak
UniteMarkingEveryUnion(p, weak, i0, j0, v, pos) ==
    [pc |-> pos.pc, i |-> pos.i, j |-> pos.j, verdict |-> v,
     parent |-> IF v \in {"strong", "weak"} THEN union(p, i0, j0) ELSE p,
     weak_indices |-> IF v \in {"strong", "weak"} THEN weak \cup {i0, j0} ELSE weak]

\* lines 267-272: union on a strong or a weak match, the weak marks on a weak
\* match only
Unite(p, weak, i0, j0, v, pos) ==
    [pc |-> pos.pc, i |-> pos.i, j |-> pos.j, verdict |-> v,
     parent |-> IF v \in {"strong", "weak"} THEN union(p, i0, j0) ELSE p,
     weak_indices |-> IF v = "weak" THEN weak \cup {i0, j0} ELSE weak]

\* the pair's verdict, then the union-find and the next position
AfterVerdict(n, p, weak, i0, j0, v) ==
    Unite(p, weak, i0, j0, v, NextPos(n, i0, j0, v))

\* the loop body at (i, j): the union-find, the weak marks and the next position
ScanStep(list, p, weak, i0, j0) ==
    AfterVerdict(Len(list), p, weak, i0, j0, PairVerdict(At(list, i0), At(list, j0)))

\* lines 274-281: group by root, in order of first appearance; find() keeps
\* halving paths while it is called for every index
RECURSIVE GroupFrom(_, _, _, _, _)
GroupFrom(k, n, p, weak, acc) ==
    IF k >= n THEN [groups |-> acc, parent |-> p]
    ELSE LET f == find(p, k)
             at == {q \in 1..Len(acc) : acc[q].root = f.root}
             q == MinOf(at)
             acc2 == IF at = {}
                     THEN Append(acc, [root |-> f.root, members |-> <<k>>,
                                       weak |-> k \in weak])
                     ELSE [acc EXCEPT ![q] = [root |-> f.root,
                                              members |-> Append(acc[q].members, k),
                                              weak |-> acc[q].weak \/ k \in weak]]
         IN  GroupFrom(k + 1, n, f.parent, weak, acc2)

\* the records of one cluster, in index order
ClusterRecords(list, c) == ListOf(Len(c.members), LAMBDA m : At(list, c.members[m]))

\* lines 287-291: the note on a merged record whose cluster was formed weakly
Flagged(c, merged) ==
    IF c.weak /\ Len(c.members) > 1
    THEN [merged EXCEPT !["dedup_note"] =
             Str(note_head \o IntToStr(Len(c.members)) \o note_tail)]
    ELSE merged

\* lines 285-292: one merged record per cluster, flagged when formed weakly
MergedOf(list, c) == Flagged(c, _merge_cluster(ClusterRecords(list, c)))

\* every group with its merged record
WithMerged(list, groups) ==
    ListOf(Len(groups), LAMBDA q :
        [root |-> groups[q].root, members |-> groups[q].members,
         weak |-> groups[q].weak, merged |-> MergedOf(list, groups[q])])

Grouped(list, p, weak) ==
    WithMerged(list, GroupFrom(0, Len(list), p, weak, <<>>).groups)

\* the list of merged records before the final sort
MergedList(cs) == ListOf(Len(cs), LAMBDA q : cs[q].merged)

\* a record with no key at all
Blank == [f \in Fields |-> Missing]

\* the steps of one invocation --------------------------------------------

StageOneIdle == UNCHANGED <<messages, msg_clusters, result>>
HarnessIdle == UNCHANGED <<pair, verdict>>
ExtractionIdle == UNCHANGED <<futures, outfile, all_incidents, completed_count>>

\* a faulty variant of ArgumentAfter: the sort of line 239 applied to the
\* caller's own list
ArgumentSortedInPlace(input) ==
    IF SortRaises(input) THEN input ELSE SortByDate(input)

\* the caller's list object after the call.  Line 233 rebinds `incidents` to
\* a new list before the in-place sort of line 239, the cluster lists that
\* _merge_cluster sorts are built at line 279, and line 161 copies the base
\* record before any key is assigned: the argument and its records are only
\* read
ArgumentAfter(input) == input

InvokeTo(st) ==
    /\ pc' = st.pc
    /\ incidents' = st.incidents
    /\ parent' = st.parent
    /\ weak_indices' = {}
    /\ unioned' = {}
    /\ i' = st.i
    /\ j' = st.j
    /\ clusters' = <<>>
    /\ deduplicated' = <<>>

Invoke(input) == InvokeTo(Start(input))

\* deduplicate(batch) is called: lines 228-256
Begin ==
    /\ pc = "start"
    /\ Invoke(batch)
    /\ batch' = ArgumentAfter(batch)
    /\ UNCHANGED <<run, first_out>>
    /\ StageOneIdle /\ HarnessIdle /\ ExtractionIdle

\* the loop body's effect st on the variables
ScanTo(st) ==
    /\ parent' = st.parent
    /\ weak_indices' = st.weak_indices
    /\ unioned' = IF st.verdict \in {"strong", "weak"}
                  THEN unioned \cup {<<i, j>>} ELSE unioned
    /\ pc' = st.pc
    /\ i' = st.i
    /\ j' = st.j

\* one pass of the inner loop body for the pair (i, j): lines 259-272
Scan ==
    /\ pc = "scan"
    /\ ScanTo(ScanStep(incidents, parent, weak_indices, i, j))
    /\ UNCHANGED <<run, batch, incidents, clusters, deduplicated, first_out>>
    /\ StageOneIdle /\ HarnessIdle /\ ExtractionIdle

\* lines 293-295: the final sort and the return
Return(list) ==
    IF SortRaises(list)
    THEN pc' = "raised" /\ deduplicated' = <<>>
    ELSE pc' = "done" /\ deduplicated' = SortByDate(list)

\* the clusters cs are kept and their merged records returned
GroupTo(cs) == clusters' = cs /\ Return(MergedList(cs))

\* lines 274-295: group, merge, flag, sort, return
GroupAndMerge ==
    /\ pc = "group"
    /\ GroupTo(Grouped(incidents, parent, weak_indices))
    /\ parent' = GroupFrom(0, Len(incidents), parent, weak_indices, <<>>).parent
    /\ UNCHANGED <<run, batch, incidents, weak_indices, unioned, i, j, first_out>>
    /\ StageOneIdle /\ HarnessIdle /\ ExtractionIdle

\* the caller hands the returned list to deduplicate again
Rerun ==
    /\ pc = "done"
    /\ run = 1
    /\ run' = 2
    /\ first_out' = ArgumentAfter(deduplicated)
    /\ Invoke(deduplicated)
    /\ UNCHANGED batch
    /\ StageOneIdle /\ HarnessIdle /\ ExtractionIdle

\* the caller calls deduplicate a second time on the batch of the first call
Again ==
    /\ pc = "done"
    /\ run = 1
    /\ run' = 2
    /\ first_out' = deduplicated
    /\ Invoke(batch)
    /\ batch' = ArgumentAfter(batch)
    /\ StageOneIdle /\ HarnessIdle /\ ExtractionIdle

\* every variable of the stage-2 invocation
StageTwoIdle ==
    UNCHANGED <<run, batch, incidents, parent, weak_indices, unioned, i, j,
                clusters, deduplicated, first_out>>

---------------------------------------------------------------------------
(* filter_and_extract: the stage-1 cross-channel message dedup.  A message *)
(* is a record [channel, date, text] of str.                               *)

\* set(text.lower().translate(_TRANSLIT).split())
_word_set(text) == Range(Split(Translate(Lower(text))))

\* len(a & b) / len(a | b) as a fraction; 0.0 when either set is empty
_jaccard_similarity(a, b) ==
    IF a = {} \/ b = {} THEN [num |-> 0, den |-> 1]
    ELSE [num |-> Cardinality(a \cap b), den |-> Cardinality(a \cup b)]

\* config.DEDUP_SIMILARITY = 0.7, in tenths
DEDUP_SIMILARITY == 7

\* sim >= config.DEDUP_SIMILARITY
MeetsThreshold(sim) == 10 * sim.num >= DEDUP_SIMILARITY * sim.den

\* msg["date"][:10]
DayOf(msg) == Prefix(msg.date, 10)

\* by_date: the days in order of first appearance
DaysOf(msgs) == Dedupe(ListOf(Len(msgs), LAMBDA k : DayOf(msgs[k])))

\* by_date[day], as the positions of its messages in the caller's list
DayPositions(msgs, day) ==
    SelectSeq(ListOf(Len(msgs), LAMBDA k : k), LAMBDA k : DayOf(msgs[k]) = day)

\* a faulty variant of JoinsAnchor: the channels are not compared
JoinsAnchorAnyChannel(day_msgs, i0, j0, used) ==
    /\ j0 \notin used
    /\ MeetsThreshold(_jaccard_similarity(_word_set(day_msgs[i0].text),
                                          _word_set(day_msgs[j0].text)))

\* lines 130-140: candidate j joins the cluster opened by anchor i
JoinsAnchor(day_msgs, i0, j0, used) ==
    /\ j0 \notin used
    /\ day_msgs[i0].channel # day_msgs[j0].channel
    /\ MeetsThreshold(_jaccard_similarity(_word_set(day_msgs[i0].text),
                                          _word_set(day_msgs[j0].text)))

\* a faulty variant of DayClusters: a message that joined a cluster still
\* opens one of its own
RECURSIVE DayClustersAnchoringUsed(_, _, _, _)
DayClustersAnchoringUsed(day_msgs, i0, used, acc) ==
    IF i0 > Len(day_msgs) THEN acc
    ELSE LET later == ListOf(Len(day_msgs) - i0, LAMBDA k : i0 + k)
             cluster == <<i0>> \o SelectSeq(later,
                            LAMBDA j0 : JoinsAnchor(day_msgs, i0, j0, used))
         IN  DayClustersAnchoringUsed(day_msgs, i0 + 1, used \cup Range(cluster),
                                      Append(acc, cluster))

\* lines 123-141: the greedy single pass over one day's messages
RECURSIVE DayClusters(_, _, _, _)
DayClusters(day_msgs, i0, used, acc) ==
    IF i0 > Len(day_msgs) THEN acc
    ELSE IF i0 \in used THEN DayClusters(day_msgs, i0 + 1, used, acc)
    ELSE LET later == ListOf(Len(day_msgs) - i0, LAMBDA k : i0 + k)
             cluster == <<i0>> \o SelectSeq(later,
                            LAMBDA j0 : JoinsAnchor(day_msgs, i0, j0, used))
         IN  DayClusters(day_msgs, i0 + 1, used \cup Range(cluster),
                         Append(acc, cluster))

\* the clusters of one day, their members named by position in the caller's list
ClustersOfDay(msgs, day) ==
    LET at == DayPositions(msgs, day)
        day_msgs == ListOf(Len(at), LAMBDA k : msgs[at[k]])
        cs == DayClusters(day_msgs, 1, {}, <<>>)
    IN  ListOf(Len(cs), LAMBDA q :
            [day |-> day,
             members |-> ListOf(Len(cs[q]), LAMBDA m : at[cs[q][m]])])

\* a faulty variant of BestOf: the cluster's first member is kept
BestOfFirstMember(msgs, c) ==
    LET cluster_msgs == ListOf(Len(c.members), LAMBDA m : msgs[c.members[m]])
        best == cluster_msgs[1]
    IN  [channel |-> best.channel, date |-> best.date, text |-> best.text,
         _source_channels |-> {m.channel : m \in Range(cluster_msgs)}]

\* lines 143-149: the longest text of the cluster, with the merged channels
BestOf(msgs, c) ==
    LET cluster_msgs == ListOf(Len(c.members), LAMBDA m : msgs[c.members[m]])
        perm == StableSort(Len(cluster_msgs),
                    LAMBDA a, b : Len(cluster_msgs[a].text) > Len(cluster_msgs[b].text))
        best == cluster_msgs[perm[1]]
    IN  [channel |-> best.channel, date |-> best.date, text |-> best.text,
         _source_channels |-> {m.channel : m \in Range(cluster_msgs)}]

\* every day's clusters, day after day
AllClusters(msgs) ==
    LET days == DaysOf(msgs)
    IN  Concat(ListOf(Len(days), LAMBDA d : ClustersOfDay(msgs, days[d])))

\* _cross_channel_dedup(messages): lines 111-151
_cross_channel_dedup ==
    /\ pc = "stage1"
    /\ LET cs == AllClusters(messages)
       IN  /\ msg_clusters' = cs
           /\ result' = ListOf(Len(cs), LAMBDA q : BestOf(messages, cs[q]))
    /\ pc' = "stage1_done"
    /\ UNCHANGED messages
    /\ StageTwoIdle /\ HarnessIdle /\ ExtractionIdle

---------------------------------------------------------------------------
(* The stage-1 similarity of one pair of texts *)

\* line 137: _jaccard_similarity(words_i, words_j) of lines 128 and 136
Compare ==
    /\ pc = "compare"
    /\ verdict' = _jaccard_similarity(_word_set(pair[1]), _word_set(pair[2]))
    /\ pc' = "compared"
    /\ UNCHANGED pair
    /\ StageTwoIdle /\ StageOneIdle /\ ExtractionIdle

---------------------------------------------------------------------------
(* The matcher predicates called on one pair of records, in both orders *)

\* what a call returns, or the exception it raises
Returned(v) == [ok |-> TRUE, value |-> v, error |-> ""]
Raised(e) == [ok |-> FALSE, value |-> FALSE, error |-> e]

\* dedup._cities_equivalent(a, b): the module defines no such name and no
\* alias table, so the attribute lookup raises before any call is made
_cities_equivalent(a, b) == Raised("AttributeError")

Match ==
    /\ pc = "match"
    /\ LET a == pair[1]
           b == pair[2]
       IN  verdict' =
               [locations_match |-> <<_locations_match(a, b), _locations_match(b, a)>>,
                locations_weak_match |->
                    <<_locations_weak_match(a, b), _locations_weak_match(b, a)>>,
                same_target_type |->
                    <<_same_target_type(a, b), _same_target_type(b, a)>>,
                event_dates_close |->
                    <<_event_dates_close(a, b), _event_dates_close(b, a)>>,
                cities_equivalent |->
                    _cities_equivalent(_normalize(Get(a, "city", Empty)),
                                       _normalize(Get(b, "city", Empty)))]
    /\ pc' = "matched"
    /\ UNCHANGED pair
    /\ StageTwoIdle /\ StageOneIdle /\ ExtractionIdle

---------------------------------------------------------------------------
(* Inputs.  Every batch is a list of at most MaxBatch records drawn from a  *)
(* pool; a pool varies the fields one group of properties turns on and      *)
(* holds the others at the values of Base.                                  *)

MaxBatch == 3
MaxMessages == 3
MaxFutures == 2
MaxRuns == 2

\* "2026-02-05"
d_0205 == <<50, 48, 50, 54, 45, 48, 50, 45, 48, 53>>
\* "2026-02-07"
d_0207 == <<50, 48, 50, 54, 45, 48, 50, 45, 48, 55>>
\* "2026-02-09"
d_0209 == <<50, 48, 50, 54, 45, 48, 50, 45, 48, 57>>
\* "2026-02-9"
d_029 == <<50, 48, 50, 54, 45, 48, 50, 45, 57>>
\* "2026-02-10"
d_0210 == <<50, 48, 50, 54, 45, 48, 50, 45, 49, 48>>
\* "unknown"
d_unknown == <<117, 110, 107, 110, 111, 119, 110>>
\* "LOW"
k_LOW == <<76, 79, 87>>
\* "Kerch"
c_Kerch == <<75, 101, 114, 99, 104>>
\* "Oskol"
c_Oskol == <<79, 115, 107, 111, 108>>
\* "Stary Oskol"
c_StaryOskol == <<83, 116, 97, 114, 121, 32, 79, 115, 107, 111, 108>>
\* "Ryazan"
c_Ryazan == <<82, 121, 97, 122, 97, 110>>
\* "Krasnodar"
c_Krasnodar == <<75, 114, 97, 115, 110, 111, 100, 97, 114>>
\* "Krasnoyarsk"
c_Krasnoyarsk == <<75, 114, 97, 115, 110, 111, 121, 97, 114, 115, 107>>
\* "\u0420\u044f\u0437\u0430\u043d\u044c"
c_Ryazan_uk == <<1056, 1103, 1079, 1072, 1085, 1100>>
\* "Kem"
c_Kem == <<75, 101, 109>>
\* "\u0412\u043e\u0440\u043e\u043di\u0436", normalized "voronizh"
c_Voronizh == <<1042, 1086, 1088, 1086, 1085, 105, 1078>>
\* "Voronezh"
c_Voronezh == <<86, 111, 114, 111, 110, 101, 122, 104>>
\* "Kemerovo"
c_Kemerovo == <<75, 101, 109, 101, 114, 111, 118, 111>>
\* "Karelia"
r_Karelia == <<75, 97, 114, 101, 108, 105, 97>>
\* "Kemerovo Oblast"
r_Kemerovo == <<75, 101, 109, 101, 114, 111, 118, 111, 32, 79, 98, 108, 97, 115, 116>>
\* "Crimea"
r_Crimea == <<67, 114, 105, 109, 101, 97>>
\* "Ryazan"
r_Ryazan == <<82, 121, 97, 122, 97, 110>>
\* "Krasnodar"
r_Krasnodar == <<75, 114, 97, 115, 110, 111, 100, 97, 114>>
\* "Krasnoyarsk"
r_Krasnoyarsk == <<75, 114, 97, 115, 110, 111, 121, 97, 114, 115, 107>>
\* "airfield"
t_airfield == <<97, 105, 114, 102, 105, 101, 108, 100>>
\* "ammunition_depot"
t_ammunition_depot == <<97, 109, 109, 117, 110, 105, 116, 105, 111, 110, 95, 100, 101, 112, 111, 116>>
\* "power_infrastructure"
t_power_infrastructure == <<112, 111, 119, 101, 114, 95, 105, 110, 102, 114, 97, 115, 116, 114, 117, 99, 116, 117, 114, 101>>
\* "naval"
t_naval == <<110, 97, 118, 97, 108>>
\* "radar"
t_radar == <<114, 97, 100, 97, 114>>
\* "transport"
t_transport == <<116, 114, 97, 110, 115, 112, 111, 114, 116>>
\* "industrial"
t_industrial == <<105, 110, 100, 117, 115, 116, 114, 105, 97, 108>>
\* "residential"
t_residential == <<114, 101, 115, 105, 100, 101, 110, 116, 105, 97, 108>>
\* "bridge"
t_bridge == <<98, 114, 105, 100, 103, 101>>
\* "Airfield"
t_Airfield == <<65, 105, 114, 102, 105, 101, 108, 100>>
\* "Kerch shipyard"
f_KerchShipyard ==
    <<75, 101, 114, 99, 104, 32, 115, 104, 105, 112, 121, 97, 114, 100>>
\* "shipyard"
f_Shipyard == <<115, 104, 105, 112, 121, 97, 114, 100>>
\* "Saki airfield"
f_SakiAirfield ==
    <<83, 97, 107, 105, 32, 97, 105, 114, 102, 105, 101, 108, 100>>
\* "Ryazan Oil Refinery"
f_RyazanRefinery ==
    <<82, 121, 97, 122, 97, 110, 32, 79, 105, 108, 32, 82, 101, 102, 105,
     110, 101, 114, 121>>
\* "Target hit"
x_hit == <<84, 97, 114, 103, 101, 116, 32, 104, 105, 116>>
\* "Shipyard damaged by missile"
x_long ==
    <<83, 104, 105, 112, 121, 97, 114, 100, 32, 100, 97, 109, 97, 103, 101,
     100, 32, 98, 121, 32, 109, 105, 115, 115, 105, 108, 101>>
\* "astrapress"
ch_astrapress == <<97, 115, 116, 114, 97, 112, 114, 101, 115, 115>>
\* "oper_ZSU"
ch_oper == <<111, 112, 101, 114, 95, 90, 83, 85>>
\* "2026-02-09T08:15:00"
m_0209am ==
    <<50, 48, 50, 54, 45, 48, 50, 45, 48, 57, 84, 48, 56, 58, 49, 53, 58,
     48, 48>>
\* "2026-02-10T08:15:00"
m_0210am ==
    <<50, 48, 50, 54, 45, 48, 50, 45, 49, 48, 84, 48, 56, 58, 49, 53, 58,
     48, 48>>
\* "Drone hit Ryazan refinery"
w_short ==
    <<68, 114, 111, 110, 101, 32, 104, 105, 116, 32, 82, 121, 97, 122, 97,
     110, 32, 114, 101, 102, 105, 110, 101, 114, 121>>
\* "drone hit \u0420\u044f\u0437\u0430\u043d\u044c refinery fire"
w_long ==
    <<100, 114, 111, 110, 101, 32, 104, 105, 116, 32, 1056, 1103, 1079,
     1072, 1085, 1100, 32, 114, 101, 102, 105, 110, 101, 114, 121, 32, 102,
     105, 114, 101>>
\* "Drone hit a Ryazan refinery \u0432 5"
w_noisy ==
    <<68, 114, 111, 110, 101, 32, 104, 105, 116, 32, 97, 32, 82, 121, 97,
     122, 97, 110, 32, 114, 101, 102, 105, 110, 101, 114, 121, 32, 1074, 32,
     53>>
\* "Drone hit Ryazan refineries"
w_plural ==
    <<68, 114, 111, 110, 101, 32, 104, 105, 116, 32, 82, 121, 97, 122, 97,
     110, 32, 114, 101, 102, 105, 110, 101, 114, 105, 101, 115>>
\* "DRONE HIT RYAZAN REFINERY"
w_upper ==
    <<68, 82, 79, 78, 69, 32, 72, 73, 84, 32, 82, 89, 65, 90, 65, 78, 32,
     82, 69, 70, 73, 78, 69, 82, 89>>
\* "refinery Ryazan hit drone"
w_swapped ==
    <<114, 101, 102, 105, 110, 101, 114, 121, 32, 82, 121, 97, 122, 97, 110,
     32, 104, 105, 116, 32, 100, 114, 111, 110, 101>>
\* "Saki airfield strike"
w_other ==
    <<83, 97, 107, 105, 32, 97, 105, 114, 102, 105, 101, 108, 100, 32, 115,
     116, 114, 105, 107, 101>>

\* coordinates in hundredths of a degree; Taman is about 25 km from Kerch,
\* the port about 2 km, Krasnoyarsk about 3900 km from Krasnodar
KerchAt == [lat |-> Num(4535), lon |-> Num(3647)]
KerchPortAt == [lat |-> Num(4537), lon |-> Num(3648)]
TamanAt == [lat |-> Num(4521), lon |-> Num(3672)]
KrasnodarAt == [lat |-> Num(4504), lon |-> Num(3897)]
KrasnoyarskAt == [lat |-> Num(5601), lon |-> Num(9287)]
Nowhere == [lat |-> None, lon |-> None]

Base ==
    [Blank EXCEPT !["date"] = Str(d_0207), !["city"] = Str(c_Kerch),
                  !["region"] = Str(r_Crimea), !["facility_name"] = None,
                  !["target_type"] = Str(t_airfield),
                  !["damage_summary"] = Str(x_hit),
                  !["latitude"] = None, !["longitude"] = None,
                  !["confidence"] = Str(s_high), !["maritime"] = Bool(FALSE),
                  !["source_channel"] = Str(ch_astrapress),
                  !["message_date"] = Str(d_0207)]

Batches(Pool) == UNION {[1..n -> Pool] : n \in 0..MaxBatch}

\* three dates, one of them not zero-padded; a city, or the region alone
PoolDates ==
    {[Base EXCEPT !["date"] = Str(d), !["city"] = v[1], !["target_type"] = Str(v[2])] :
        d \in {d_0207, d_029, d_0210},
        v \in {<<Str(c_Kerch), t_airfield>>, <<None, t_airfield>>,
               <<Str(c_Kerch), s_oil_refinery>>}}

\* zero-padded dates two days apart; the wildcard type has the longest summary
PoolMerge ==
    {[Base EXCEPT !["date"] = Str(d), !["target_type"] = Str(v[1]),
                  !["damage_summary"] = Str(v[2])] :
        d \in {d_0205, d_0207, d_0209},
        v \in {<<t_airfield, x_hit>>, <<s_oil_refinery, x_hit>>, <<s_other, x_long>>}}

\* two cities 3900 km apart whose names share their first five letters,
\* with either city's coordinates or none; two places 25 km apart
PoolGeo ==
    {[Base EXCEPT !["city"] = Str(v[1]), !["region"] = Str(v[2]),
                  !["latitude"] = at.lat, !["longitude"] = at.lon] :
        v \in {<<c_Krasnodar, r_Krasnodar>>, <<c_Krasnoyarsk, r_Krasnoyarsk>>},
        at \in {KrasnodarAt, KrasnoyarskAt, Nowhere}}
    \cup {[Base EXCEPT !["latitude"] = KerchAt.lat, !["longitude"] = KerchAt.lon],
          [Base EXCEPT !["city"] = None, !["latitude"] = TamanAt.lat,
                       !["longitude"] = TamanAt.lon]}

\* one city and date; four target types, with and without a facility name
PoolType ==
    {[Base EXCEPT !["city"] = Str(c_Ryazan), !["region"] = Str(r_Ryazan),
                  !["target_type"] = Str(t), !["facility_name"] = f] :
        t \in {s_oil_refinery, s_fuel_depot, t_airfield, s_other},
        f \in {None, Str(f_RyazanRefinery)}}

\* region-only records and their neighbours: facility names, a second
\* region, a named city, another type, a date three days later
PoolWeak ==
    {[Base EXCEPT !["city"] = None, !["facility_name"] = f] :
        f \in {None, Str(f_KerchShipyard), Str(f_Shipyard), Str(f_SakiAirfield)}}
    \cup {[Base EXCEPT !["city"] = None, !["region"] = Str(r_Krasnodar)],
          [Base EXCEPT !["facility_name"] = Str(f_KerchShipyard)],
          [Base EXCEPT !["city"] = None, !["target_type"] = Str(s_oil_refinery)],
          [Base EXCEPT !["city"] = None, !["date"] = Str(d_0210)]}

\* one city and date; a specific type and the wildcard, at places 2 km and
\* 25 km apart or with no coordinates
PoolOther ==
    {[Base EXCEPT !["target_type"] = Str(t), !["latitude"] = at.lat,
                  !["longitude"] = at.lon] :
        t \in {t_airfield, s_other},
        at \in {KerchAt, KerchPortAt, TamanAt, Nowhere}}

\* a record with every key present and null
AllNull == [f \in Fields |-> None]

\* noisy records: the date present, null, absent or not a date, with a city
\* or the region alone; a record of nulls and a record with no key
PoolNoisy ==
    {[Base EXCEPT !["date"] = d, !["city"] = c] :
        d \in {Str(d_0207), None, Missing, Str(d_unknown)},
        c \in {Str(c_Kerch), None}}
    \cup {AllNull, Blank}

\* records of high and medium confidence, and records of confidence "low"
\* and "LOW" with a channel, a summary, an earlier date and a message date
\* of their own
PoolConf ==
    {[Base EXCEPT !["confidence"] = Str(k), !["city"] = c] :
        k \in {s_high, s_medium}, c \in {Str(c_Kerch), None}}
    \cup {[Base EXCEPT !["confidence"] = Str(k), !["date"] = Str(d),
                       !["source_channel"] = Str(ch_oper),
                       !["damage_summary"] = Str(x_long),
                       !["message_date"] = Str(d_0205)] :
            k \in {s_low, k_LOW}, d \in {d_0205, d_0207}}

\* the pairs handed to the matcher: every pool, and records that differ in
\* spelling, in case, in one coordinate, and in absent or null fields; a
\* target type outside the extractor's list; a three-letter city name that
\* begins the name of a city 3000 km away
PoolMatcher ==
    PoolDates \cup PoolGeo \cup PoolType \cup PoolWeak
    \cup {[Base EXCEPT !["city"] = Str(c_Oskol)],
          [Base EXCEPT !["city"] = Str(c_StaryOskol)],
          [Base EXCEPT !["city"] = Str(c_Ryazan_uk), !["region"] = Str(r_Ryazan),
                       !["target_type"] = Str(s_oil_refinery)],
          [Base EXCEPT !["target_type"] = Str(t_Airfield)],
          [Base EXCEPT !["target_type"] = None, !["date"] = None],
          [Base EXCEPT !["latitude"] = KerchAt.lat],
          [Base EXCEPT !["city"] = None, !["target_type"] = Str(s_command_post),
                       !["facility_name"] = Str(f_SakiAirfield)],
          [Base EXCEPT !["city"] = None, !["target_type"] = Str(s_military_base),
                       !["facility_name"] = Str(f_SakiAirfield)],
          [Base EXCEPT !["target_type"] = Str(t_bridge)],
          [Base EXCEPT !["city"] = Str(c_Kem), !["region"] = Str(r_Karelia)],
          [Base EXCEPT !["city"] = Str(c_Kemerovo), !["region"] = Str(r_Kemerovo)],
          [Base EXCEPT !["city"] = Str(c_Voronizh), !["region"] = Str(c_Voronezh),
                       !["target_type"] = Str(s_fuel_depot)],
          [Base EXCEPT !["city"] = Str(c_Voronezh), !["region"] = Str(c_Voronezh),
                       !["target_type"] = Str(s_fuel_depot)],
          Blank}

\* two channels, two days, a short text, a longer near-copy of it with one
\* word in Cyrillic, and an unrelated text
PoolMessages ==
    {[channel |-> ch, date |-> d, text |-> w] :
        ch \in {ch_astrapress, ch_oper}, d \in {m_0209am, m_0210am},
        w \in {w_short, w_long, w_other}}

\* texts that differ in case, in word order, in one-character tokens, in
\* the ending of a long word, in one word's alphabet; an unrelated text and
\* the empty one
PoolTexts ==
    {w_short, w_upper, w_swapped, w_noisy, w_plural, w_long, w_other, <<>>}

MessageLists == UNION {[1..n -> PoolMessages] : n \in 0..MaxMessages}

---------------------------------------------------------------------------
(* filter_and_extract: extraction of incidents in parallel batches.  A     *)
(* message is a stage-1 result with its message_id; a response of the API  *)
(* is what json.loads makes of its text, a text that does not parse, or a   *)
(* response without content.                                                *)

\* config.BATCH_SIZE, config.MAX_RETRIES, config.MAX_CONCURRENT
BATCH_SIZE == 25
MAX_RETRIES == 3
MAX_CONCURRENT == 4

\* lines 286-288: the batches are the runs of BATCH_SIZE consecutive messages
NumBatches(msgs) == (Len(msgs) + BATCH_SIZE - 1) \div BATCH_SIZE

BatchOf(msgs, b) ==
    SubSeq(msgs, (b - 1) * BATCH_SIZE + 1,
           IF b * BATCH_SIZE < Len(msgs) THEN b * BATCH_SIZE ELSE Len(msgs))

\* "202"
s_202 == <<50, 48, 50>>

\* lines 266-274: an entry of the response completed from its message
Completed(entry, msg) ==
    [source_channel |-> Str(Join(CommaSpace, SortedStrs(msg._source_channels))),
     source_message_id |-> Str(IntToStr(msg.message_id)),
     original_text |-> Str(msg.text),
     message_date |-> Str(Prefix(msg.date, 10)),
     date |-> IF ~Truthy(entry.date) \/ ~StartsWith(entry.date.s, s_202)
              THEN Str(Prefix(msg.date, 10)) ELSE entry.date]

\* lines 261-275: the incidents of one result, a dict or a list of dicts,
\* null entries skipped
RECURSIVE EntriesOf(_, _)
EntriesOf(entries, msg) ==
    IF entries = <<>> THEN <<>>
    ELSE (IF Head(entries).null THEN <<>> ELSE <<Completed(Head(entries), msg)>>)
             \o EntriesOf(Tail(entries), msg)

\* lines 253-257: results[k] belongs to batch[k]; null results and results
\* beyond the batch are skipped
RECURSIVE Processed(_, _, _)
Processed(results, batch0, k) ==
    IF k > Len(results) THEN <<>>
    ELSE (IF results[k].kind = "null" \/ k > Len(batch0) THEN <<>>
          ELSE EntriesOf(results[k].entries, batch0[k]))
             \o Processed(results, batch0, k + 1)

\* a submitted _send_batch call that has not made its first API call
Submitted ==
    [at |-> "pending", attempt |-> 0, calls |-> 0, oks |-> 0, cause |-> "",
     value |-> <<>>, collected |-> FALSE]

\* lines 239-250: the response is read and parsed
Parsed(w, response, batch0) ==
    CASE response.kind = "empty" -> [w EXCEPT !.at = "raised", !.cause = "IndexError"]
      [] response.kind = "text" -> [w EXCEPT !.at = "returned", !.value = <<>>]
      [] OTHER -> [w EXCEPT !.at = "returned",
                            !.value = Processed(response.results, batch0, 1)]

\* a faulty variant of MoreAttempts: the loop runs once more
MoreAttemptsOneMore(attempt) == attempt < MAX_RETRIES

\* for attempt in range(config.MAX_RETRIES): another iteration follows
MoreAttempts(attempt) == attempt + 1 < MAX_RETRIES

\* lines 213-236: one iteration of the retry loop, the API call ending as o
AfterCall(w, o, batch0) ==
    LET called == [w EXCEPT !.calls = @ + 1, !.cause = o.kind]
        again == [called EXCEPT !.attempt = @ + 1]
        empty == [called EXCEPT !.at = "returned", !.value = <<>>]
    IN  CASE o.kind = "ok" -> Parsed([called EXCEPT !.oks = @ + 1], o.response, batch0)
          [] o.kind = "RateLimitError" ->
                 IF MoreAttempts(w.attempt) THEN again ELSE empty
          [] o.kind = "APIError" ->
                 IF w.attempt < MAX_RETRIES - 1
                 THEN (IF MoreAttempts(w.attempt) THEN again ELSE empty)
                 ELSE empty
          [] OTHER -> [called EXCEPT !.at = "raised"]

\* ThreadPoolExecutor(max_workers=MAX_CONCURRENT): the calls are started in
\* the order submitted, at most MAX_CONCURRENT of them unfinished at a time
Scheduled(fs, b) ==
    Cardinality({c \in 1..(b - 1) : fs[c].at = "pending"}) < MAX_CONCURRENT

\* the entries and results a response may hold
Entry(d) == [null |-> FALSE, date |-> d]
NullEntry == [null |-> TRUE, date |-> None]
NullResult == [kind |-> "null", entries |-> <<>>]
DictResult(e) == [kind |-> "dict", entries |-> <<e>>]
ListResult(es) == [kind |-> "list", entries |-> es]

Json(results) == [kind |-> "json", results |-> results]
NotJson == [kind |-> "text", results |-> <<>>]
NoContent == [kind |-> "empty", results |-> <<>>]

\* one incident for the first message; nothing for the first message and
\* two incidents, one without event date, for the second; text that is
\* not JSON; no content block
Responses ==
    {Json(<<DictResult(Entry(Str(d_0205)))>>),
     Json(<<NullResult, ListResult(<<Entry(None), NullEntry, Entry(Str(d_0205))>>)>>),
     NotJson, NoContent}

Outcomes ==
    {[kind |-> "ok", response |-> r] : r \in Responses}
    \cup {[kind |-> k, response |-> NotJson] :
            k \in {"RateLimitError", "APIError", "Exception"}}

StagesIdle ==
    UNCHANGED <<batch, incidents, parent, weak_indices, unioned, i, j, clusters,
                deduplicated, first_out, msg_clusters, result, pair, verdict>>

\* extract_incidents(api_key, messages) up to the submission of the batches,
\* lines 281-333, the user confirming: the file is opened with mode "w"
Open ==
    /\ pc = "extract"
    /\ pc' = "collect"
    /\ outfile' = <<>>
    /\ all_incidents' = <<>>
    /\ completed_count' = 0
    /\ futures' = [b \in 1..NumBatches(messages) |-> Submitted]
    /\ UNCHANGED <<run, messages>>
    /\ StagesIdle

\* lines 314-320: the user does not confirm, [] is returned
Cancel ==
    /\ pc = "extract"
    /\ pc' = "extracted"
    /\ all_incidents' = <<>>
    /\ futures' = <<>>
    /\ UNCHANGED <<run, messages, outfile, completed_count>>
    /\ StagesIdle

\* a worker thread makes the next API call of batch b
Call(b, o) ==
    /\ futures[b].at = "pending"
    /\ Scheduled(futures, b)
    /\ futures' = [futures EXCEPT ![b] = AfterCall(futures[b], o, BatchOf(messages, b))]

Worker ==
    /\ pc = "collect"
    /\ \E b \in DOMAIN futures : \E o \in Outcomes : Call(b, o)
    /\ UNCHANGED <<pc, run, messages, outfile, all_incidents, completed_count>>
    /\ StagesIdle

\* a faulty variant of Collectable: a future is yielded whenever it is done
CollectableAgain(f) == f.at # "pending"

\* as_completed yields every future once, when it is done
Collectable(f) == f.at # "pending" /\ ~f.collected

\* lines 334-346: the main thread takes the result of a finished future;
\* an exception raised in the worker is printed, a returned list is
\* written line by line, flushed and appended to all_incidents
CollectFrom(b) ==
    /\ futures' = [futures EXCEPT ![b].collected = TRUE]
    /\ IF futures[b].at = "raised"
       THEN UNCHANGED <<outfile, all_incidents, completed_count>>
       ELSE /\ outfile' = outfile \o futures[b].value
            /\ all_incidents' = all_incidents \o futures[b].value
            /\ completed_count' = completed_count + 1

Collect ==
    /\ pc = "collect"
    /\ \E b \in DOMAIN futures : Collectable(futures[b]) /\ CollectFrom(b)
    /\ UNCHANGED <<pc, run, messages>>
    /\ StagesIdle

\* lines 328-349: every future was yielded; the file is closed and
\* all_incidents returned
Close ==
    /\ pc = "collect"
    /\ \A b \in DOMAIN futures : futures[b].collected
    /\ pc' = "extracted"
    /\ UNCHANGED <<run, messages>>
    /\ ExtractionIdle
    /\ StagesIdle

\* the pipeline is run again on the same messages
ExtractAgain ==
    /\ pc = "extracted"
    /\ run < MaxRuns
    /\ run' = run + 1
    /\ pc' = "extract"
    /\ UNCHANGED messages
    /\ ExtractionIdle
    /\ StagesIdle

\* messages as stage 1 returns them, of two days, from two channels
Extractable(k) ==
    [message_id |-> 100 + k, channel |-> ch_astrapress,
     date |-> IF k % 2 = 1 THEN m_0209am ELSE m_0210am, text |-> w_other,
     _source_channels |-> {ch_oper, ch_astrapress}]

MessagesOf(n) == [k \in 1..n |-> Extractable(k)]

\* no message, one message, and one message more than fills b batches
ExtractionInputs ==
    {MessagesOf(n) : n \in {0, 1} \cup {b * BATCH_SIZE + 1 : b \in 1..(MaxFutures - 1)}}

\* one batch: a single message, two messages, a full batch
SingleBatches == {MessagesOf(1), MessagesOf(2), MessagesOf(BATCH_SIZE)}

Idle(at, B, M, P) ==
    /\ pc = at
    /\ run = 1
    /\ batch \in B
    /\ incidents = <<>>
    /\ parent = <<>>
    /\ weak_indices = {}
    /\ unioned = {}
    /\ i = 0
    /\ j = 0
    /\ clusters = <<>>
    /\ deduplicated = <<>>
    /\ first_out = <<>>
    /\ messages \in M
    /\ msg_clusters = <<>>
    /\ result = <<>>
    /\ pair \in P
    /\ verdict = <<>>
    /\ futures = <<>>
    /\ outfile = <<>>
    /\ all_incidents = <<>>
    /\ completed_count = 0

\* one city and date; two confidence levels, at two places 2 km apart, with
\* no coordinates, or with a latitude alone
PoolCoords ==
    {[Base EXCEPT !["confidence"] = Str(k), !["latitude"] = at.lat,
                  !["longitude"] = at.lon] :
        k \in {s_high, s_medium},
        at \in {KerchAt, KerchPortAt, Nowhere}}
    \cup {[Base EXCEPT !["latitude"] = KerchAt.lat]}

\* one city and date; one source, the other, both in one list, or none
PoolSources ==
    {[Base EXCEPT !["source_channel"] = c] :
        c \in {Str(ch_astrapress), Str(ch_oper),
               Str(ch_oper \o CommaSpace \o ch_astrapress), None}}

\* a caller about to hand one batch of B to deduplicate
InitWith(B) == Idle("start", B, {<<>>}, {<<>>})

Init == InitWith(Batches(PoolDates))

Next == Begin \/ Scan \/ GroupAndMerge \/ Rerun

Spec == Init /\ [][Next]_vars

InitMerge == InitWith(Batches(PoolMerge))
SpecMerge == InitMerge /\ [][Next]_vars

InitGeo == InitWith(Batches(PoolGeo))
SpecGeo == InitGeo /\ [][Next]_vars

InitType == InitWith(Batches(PoolType))
SpecType == InitType /\ [][Next]_vars

InitWeak == InitWith(Batches(PoolWeak))
SpecWeak == InitWeak /\ [][Next]_vars

InitOther == InitWith(Batches(PoolOther))
SpecOther == InitOther /\ [][Next]_vars

InitNoisy == InitWith(Batches(PoolNoisy))
SpecNoisy == InitNoisy /\ [][Next]_vars

InitConf == InitWith(Batches(PoolConf))
SpecConf == InitConf /\ [][Next]_vars

InitCoords == InitWith(Batches(PoolCoords))
SpecCoords == InitCoords /\ [][Next]_vars

InitSources == InitWith(Batches(PoolSources))
SpecSources == InitSources /\ [][Next]_vars

\* a caller that calls deduplicate twice on one batch
NextAgain == Begin \/ Scan \/ GroupAndMerge \/ Again
SpecAgain == InitMerge /\ [][NextAgain]_vars

\* a caller about to hand one pair of records to the four predicates
InitMatcher == Idle("match", {<<>>}, {<<>>}, PoolMatcher \X PoolMatcher)
NextMatcher == Match
SpecMatcher == InitMatcher /\ [][NextMatcher]_vars

\* a caller about to hand one message list to _cross_channel_dedup
InitStage1 == Idle("stage1", {<<>>}, MessageLists, {<<>>})
NextStage1 == _cross_channel_dedup
SpecStage1 == InitStage1 /\ [][NextStage1]_vars

\* two texts about to be compared
InitTexts == Idle("compare", {<<>>}, {<<>>}, PoolTexts \X PoolTexts)
NextTexts == Compare
SpecTexts == InitTexts /\ [][NextTexts]_vars

\* extract_incidents about to be called on a list of messages
InitExtract == Idle("extract", {<<>>}, ExtractionInputs, {<<>>})
NextExtract == Open \/ Cancel \/ Worker \/ Collect \/ Close
SpecExtract == InitExtract /\ [][NextExtract]_vars

\* one batch; a worker thread that can make a call makes it
InitSend == Idle("extract", {<<>>}, SingleBatches, {<<>>})
SpecSend == InitSend /\ [][NextExtract]_vars /\ WF_vars(Worker)

\* the pipeline run up to MaxRuns times
NextRuns == NextExtract \/ ExtractAgain
SpecRuns == InitSend /\ [][NextRuns]_vars

---------------------------------------------------------------------------
(* Properties of deduplicate, stated over the sorted list `incidents`, the *)
(* clusters built from it and the history of union calls                   *)

\* the 0-based positions of the sorted list, and the record at one
Idx == 0..(Len(incidents) - 1)
Rec(k) == At(incidents, k)

\* the three conditions of a match: date proximity, type compatibility and
\* a strong or weak location match
PairMatches(a, b) ==
    /\ _event_dates_close(a, b)
    /\ _same_target_type(a, b)
    /\ (_locations_match(a, b) \/ _locations_weak_match(a, b))

MatchingPairs ==
    {e \in Idx \X Idx : e[1] < e[2] /\ PairMatches(Rec(e[1]), Rec(e[2]))}

MembersOf(q) == Range(clusters[q].members)
ClusterOf(k) == CHOOSE q \in 1..Len(clusters) : k \in MembersOf(q)
SameCluster(x, y) == ClusterOf(x) = ClusterOf(y)

\* the members of S reachable from `from` along the edges E, either way
RECURSIVE Reach(_, _, _)
Reach(S, E, from) ==
    LET more == from \cup {y \in S : \E x \in from : <<x, y>> \in E \/ <<y, x>> \in E}
    IN  IF more = from THEN from ELSE Reach(S, E, more)

Connected(S, E) == S = {} \/ Reach(S, E, {MinOf(S)}) = S

HasNote(r) == Truthy(Get(r, "dedup_note", None))

\* C1: for any retained records A, B, C where A matches B and B matches C
\* but A does not directly match C, all three end in one canonical record
C1_TransitiveClosure ==
    pc = "done" =>
        \A a, b, c \in Idx :
            (/\ a # c
             /\ PairMatches(Rec(a), Rec(b)) /\ PairMatches(Rec(b), Rec(c))
             /\ ~PairMatches(Rec(a), Rec(c)))
            => (SameCluster(a, b) /\ SameCluster(b, c))

\* C2: union(i, j) is called only for a pair that satisfies date proximity,
\* type compatibility and a strong or weak location match, so every cluster
\* of the output is connected by such pairs
C2_UnionOnlyOnMatch ==
    /\ unioned \subseteq MatchingPairs
    /\ pc = "done" =>
           \A q \in 1..Len(clusters) : Connected(MembersOf(q), unioned)

\* a finished first call that merged a region-only pair and kept another
\* record apart
C2_Witness ==
    /\ pc = "done" /\ run = 1
    /\ unioned # {} /\ weak_indices # {}
    /\ Len(clusters) >= 2

\* C3: the break of the inner scan never skips a matching pair: any two
\* retained records that match end in the same canonical record
C3_NoMatchingPairSkipped ==
    pc = "done" =>
        \A x, y \in Idx :
            (x < y /\ PairMatches(Rec(x), Rec(y))) => SameCluster(x, y)

\* a record without its dedup_note annotation
WithoutNote(r) == [r EXCEPT !["dedup_note"] = Missing]

SameApartFromNote(xs, ys) ==
    /\ Len(xs) = Len(ys)
    /\ \A k \in 1..Len(xs) : WithoutNote(xs[k]) = WithoutNote(ys[k])

\* C4: deduplicate called on its own output returns the same records, the
\* dedup_note annotation apart
C4_Idempotent ==
    (run = 2 /\ pc \in {"done", "raised"}) =>
        (pc = "done" /\ SameApartFromNote(deduplicated, first_out))

\* C5: each of the four matcher predicates gives the same answer for (a, b)
\* and for (b, a)
C5_Symmetric ==
    pc = "matched" =>
        /\ verdict.locations_match[1] = verdict.locations_match[2]
        /\ verdict.locations_weak_match[1] = verdict.locations_weak_match[2]
        /\ verdict.same_target_type[1] = verdict.same_target_type[2]
        /\ verdict.event_dates_close[1] = verdict.event_dates_close[2]

\* two records of different city spellings found to match in location, in
\* type and in date
C5_Witness ==
    /\ pc = "matched"
    /\ _normalize(Get(pair[1], "city", Empty)) # _normalize(Get(pair[2], "city", Empty))
    /\ verdict.locations_match = <<TRUE, TRUE>>
    /\ verdict.same_target_type = <<TRUE, TRUE>>
    /\ verdict.event_dates_close = <<TRUE, TRUE>>

CityOf(a) == _normalize(Get(a, "city", Empty))
RegionOf(a) == _normalize(Get(a, "region", Empty))

HasCoords(a) ==
    /\ Truthy(Get(a, "latitude", None)) /\ Truthy(Get(a, "longitude", None))
    /\ a["latitude"].t = "num" /\ a["longitude"].t = "num"

\* both have coordinates, more than 1000 km apart
FarApart(a, b) ==
    /\ HasCoords(a) /\ HasCoords(b)
    /\ _haversine_km(a["latitude"].n, a["longitude"].n,
                     b["latitude"].n, b["longitude"].n) > 1000

\* two non-empty names that are equal or of which one contains the other
TextOverlap(x, y) ==
    x # <<>> /\ y # <<>> /\ (x = y \/ IsSubstr(x, y) \/ IsSubstr(y, x))

PlaceNames(a) ==
    {_normalize(Get(a, "city", Empty)), _normalize(Get(a, "region", Empty))}

NoNameOverlap(a, b) ==
    \A x \in PlaceNames(a), y \in PlaceNames(b) : ~TextOverlap(x, y)

\* C6: two records more than 1000 km apart whose city and region names do
\* not overlap are never in the same canonical record
C6_DistanceGuard ==
    pc = "done" =>
        \A x, y \in Idx :
            (x < y /\ FarApart(Rec(x), Rec(y)) /\ NoNameOverlap(Rec(x), Rec(y)))
            => ~SameCluster(x, y)

\* neither type is the wildcard, they differ, and no near-synonym group
\* holds both
Incompatible(a, b) ==
    LET ta == TargetTypeOf(a)
        tb == TargetTypeOf(b)
    IN  /\ ta # tb /\ ta # s_other /\ tb # s_other
        /\ ~\E group \in _COMPATIBLE_TYPES : ta \in group /\ tb \in group

FacilityOf(a) == _normalize(Get(a, "facility_name", Empty))

SharedFacility(a, b) ==
    /\ FacilityOf(a) # <<>> /\ FacilityOf(b) # <<>>
    /\ (IsSubstr(FacilityOf(a), FacilityOf(b)) \/ IsSubstr(FacilityOf(b), FacilityOf(a)))

\* same city and date, incompatible target types, no shared facility name
DifferentTargets(a, b) ==
    /\ _normalize(Get(a, "city", Empty)) # <<>>
    /\ _normalize(Get(a, "city", Empty)) = _normalize(Get(b, "city", Empty))
    /\ Truthy(Get(a, "date", None)) /\ Get(a, "date", None) = Get(b, "date", None)
    /\ Incompatible(a, b)
    /\ ~SharedFacility(a, b)

WeakUnions(q) ==
    {e \in unioned : /\ e[1] \in MembersOf(q) /\ e[2] \in MembersOf(q)
                     /\ PairVerdict(Rec(e[1]), Rec(e[2])) = "weak"}

StrongUnions(q) ==
    {e \in unioned : /\ e[1] \in MembersOf(q) /\ e[2] \in MembersOf(q)
                     /\ PairVerdict(Rec(e[1]), Rec(e[2])) = "strong"}

NoNoteGiven == \A k \in Idx : ~HasNote(Rec(k))

\* C9 as stated: a canonical record carries dedup_note only if no two
\* members of its cluster were joined by a strong location match
C9_NoteOnlyIfAllWeak ==
    (pc = "done" /\ NoNoteGiven) =>
        \A q \in 1..Len(clusters) :
            HasNote(clusters[q].merged) => StrongUnions(q) = {}

\* C9, amended: for a batch whose records carry no dedup_note, a canonical
\* record carries one exactly when its cluster has more than one member and
\* at least one pair of its members was unioned on a weak match
C9_NoteIffSomeWeak ==
    (pc = "done" /\ NoNoteGiven) =>
        \A q \in 1..Len(clusters) :
            HasNote(clusters[q].merged)
                <=> (Cardinality(MembersOf(q)) > 1 /\ WeakUnions(q) # {})

\* a finished call whose annotated cluster holds a pair unioned on a weak
\* match and a pair unioned on a strong one
C9_Witness ==
    /\ pc = "done" /\ run = 1 /\ NoNoteGiven
    /\ \E q \in 1..Len(clusters) :
           /\ HasNote(clusters[q].merged)
           /\ WeakUnions(q) # {} /\ StrongUnions(q) # {}

NoCoords(a) ==
    ~Truthy(Get(a, "latitude", None)) /\ ~Truthy(Get(a, "longitude", None))

\* two retained region-only records: no city, no coordinates, one non-empty
\* region, compatible types, close dates, compatible or absent facilities
RegionOnlyPair(a, b) ==
    /\ Retained(a) /\ Retained(b)
    /\ _normalize(Get(a, "city", Empty)) = <<>>
    /\ _normalize(Get(b, "city", Empty)) = <<>>
    /\ NoCoords(a) /\ NoCoords(b)
    /\ _normalize(Get(a, "region", Empty)) # <<>>
    /\ _normalize(Get(a, "region", Empty)) = _normalize(Get(b, "region", Empty))
    /\ ~Incompatible(a, b)
    /\ _event_dates_close(a, b)
    /\ (FacilityOf(a) = <<>> \/ FacilityOf(b) = <<>> \/ SharedFacility(a, b))

BothNameFacility(a, b) == FacilityOf(a) # <<>> /\ FacilityOf(b) # <<>>

\* C10 as stated: two such records are merged into one canonical record,
\* and that record has a dedup_note
C10_RegionOnlyAnnotated ==
    pc = "done" =>
        \A x, y \in Idx :
            (x < y /\ RegionOnlyPair(Rec(x), Rec(y))) =>
                (SameCluster(x, y) /\ HasNote(clusters[ClusterOf(x)].merged))

\* C10, amended: the verdict on two such records is strong when both name a
\* facility and weak otherwise; a batch of just these two records is merged
\* into one canonical record, annotated exactly when the verdict was weak
C10_RegionOnlyMerged ==
    \A x, y \in Idx :
        (x < y /\ RegionOnlyPair(Rec(x), Rec(y))) =>
            /\ PairVerdict(Rec(x), Rec(y)) =
                   IF BothNameFacility(Rec(x), Rec(y)) THEN "strong" ELSE "weak"
            /\ (pc = "done" /\ run = 1 /\ Len(incidents) = 2) =>
                   /\ Len(deduplicated) = 1
                   /\ HasNote(deduplicated[1])
                          <=> ~BothNameFacility(Rec(x), Rec(y))

\* two region-only records, one of them naming a facility, returned as one
\* annotated record
C10_Witness ==
    /\ pc = "done" /\ run = 1 /\ Len(incidents) = 2
    /\ RegionOnlyPair(Rec(0), Rec(1))
    /\ FacilityOf(Rec(0)) # FacilityOf(Rec(1))
    /\ ~BothNameFacility(Rec(0), Rec(1))
    /\ Len(deduplicated) = 1 /\ HasNote(deduplicated[1])

\* one record is of the wildcard type and the other of a specific type
WildcardAndSpecific(a, b) ==
    (TargetTypeOf(a) = s_other) # (TargetTypeOf(b) = s_other)

DistanceKm(a, b) ==
    _haversine_km(a["latitude"].n, a["longitude"].n,
                  b["latitude"].n, b["longitude"].n)

\* a batch of two records of one city and date, both with coordinates, one of
\* the wildcard type and one of a specific type
WildcardPair ==
    /\ Len(incidents) = 2
    /\ CityOf(Rec(0)) # <<>> /\ CityOf(Rec(0)) = CityOf(Rec(1))
    /\ Truthy(Get(Rec(0), "date", None))
    /\ Get(Rec(0), "date", None) = Get(Rec(1), "date", None)
    /\ WildcardAndSpecific(Rec(0), Rec(1))
    /\ HasCoords(Rec(0)) /\ HasCoords(Rec(1))

\* C14: a wildcard record and a record of a specific type, of one city and
\* date, stay two records when their coordinates are more than 10 km apart
\* and become one when they are within 10 km
C14_WildcardGatedByDistance ==
    (pc = "done" /\ run = 1 /\ WildcardPair) =>
        /\ DistanceKm(Rec(0), Rec(1)) > 10 => Len(deduplicated) = 2
        /\ DistanceKm(Rec(0), Rec(1)) < 10 => Len(deduplicated) = 1

\* C15: deduplicate never raises, whichever fields of its records are absent
\* or null
C15_NeverRaises == pc # "raised"

\* the event date is missing or cannot be parsed
Undated(r) == ~_parse_date(Get(r, "date", Empty)).ok

InSomeUnion(k) == \E e \in unioned : k = e[1] \/ k = e[2]

\* C16: a retained record whose event date is missing or unparseable is
\* never unioned and comes out as a cluster of its own, without annotation
C16_UndatedSingleton ==
    (pc \in {"done", "raised"} /\ run = 1) =>
        \A k \in Idx :
            Undated(Rec(k)) =>
                /\ pc = "done"
                /\ ~InSomeUnion(k)
                /\ MembersOf(ClusterOf(k)) = {k}
                /\ ~HasNote(clusters[ClusterOf(k)].merged)

\* the confidence is "low" in any letter case
IsLow(r) ==
    Get(r, "confidence", None).t = "str" /\ Lower(Get(r, "confidence", None).s) = s_low

\* the records of the caller's batch that are not of low confidence
KeptOfBatch == {batch[k] : k \in {m \in DOMAIN batch : ~IsLow(batch[m])}}

\* the channel names listed in a source_channel value
ChannelNames(v) == Range(SplitSep(v.s, CommaSpace)) \ {<<>>}

\* every value of the record r comes from the records of S
DrawnFrom(r, S) ==
    /\ \A f \in {"date", "last_event_date"} :
           r[f] = Missing \/ r[f] \in {x["date"] : x \in S}
    /\ \A f \in {"first_message_date", "last_message_date"} :
           r[f] = Missing \/ r[f] \in {x["message_date"] : x \in S}
    /\ \A f \in {"city", "region", "facility_name", "target_type", "damage_summary",
                  "confidence", "latitude", "longitude", "original_text"} :
           r[f] \in {x[f] : x \in S}
    /\ ChannelNames(r["source_channel"])
           \subseteq UNION {ChannelNames(x["source_channel"]) : x \in S}

\* C18: a record of confidence "low" is dropped before clustering: the list
\* that is sorted, compared and unioned never holds one, and every value of
\* every returned record comes from the records that are not low
C18_LowDropped ==
    /\ \A k \in Idx : ~IsLow(Rec(k))
    /\ (pc = "done" /\ run = 1) =>
           /\ Len(incidents) = Cardinality({m \in DOMAIN batch : ~IsLow(batch[m])})
           /\ \A q \in DOMAIN deduplicated : DrawnFrom(deduplicated[q], KeptOfBatch)

\* a finished call on a batch of a low record, spelled in capitals, and two
\* records that were kept and merged
C18_Witness ==
    /\ pc = "done" /\ run = 1
    /\ Len(batch) = 3 /\ Len(incidents) = 2 /\ Len(deduplicated) = 1
    /\ \E k \in DOMAIN batch : batch[k]["confidence"] = Str(k_LOW)

---------------------------------------------------------------------------
(* Properties of the matcher predicates, stated over the pair handed to *)
(* them and the answers they gave                                        *)

\* both have coordinates, less than the radius apart
WithinRadius(a, b) ==
    /\ HasCoords(a) /\ HasCoords(b)
    /\ _haversine_km(a["latitude"].n, a["longitude"].n,
                     b["latitude"].n, b["longitude"].n) < RadiusKm

\* the same non-empty region, and facility names of which one holds the other
SameRegionAndFacility(a, b) ==
    RegionOf(a) # <<>> /\ RegionOf(a) = RegionOf(b) /\ SharedFacility(a, b)

\* C12: a strong location match is given only to a pair within the radius,
\* with equal city names, with one city name inside the other, or with the
\* same region and substring-compatible facility names
C12_OnlyListedCriteria ==
    (pc = "matched" /\ verdict.locations_match[1]) =>
        \/ WithinRadius(pair[1], pair[2])
        \/ TextOverlap(CityOf(pair[1]), CityOf(pair[2]))
        \/ SameRegionAndFacility(pair[1], pair[2])

\* the only evidence that the two places are one is that the city name of
\* one, of at most three letters, occurs inside the other's
ShortNameInsideOnly(a, b) ==
    /\ CityOf(a) # CityOf(b)
    /\ TextOverlap(CityOf(a), CityOf(b))
    /\ (Len(CityOf(a)) <= 3 \/ Len(CityOf(b)) <= 3)
    /\ ~WithinRadius(a, b)
    /\ ~SameRegionAndFacility(a, b)

\* C13: a city name of at most three letters that occurs inside the other
\* record's city name is not enough for a strong location match
C13_ShortNameNoMatch ==
    (pc = "matched" /\ ShortNameInsideOnly(pair[1], pair[2]))
        => ~verdict.locations_match[1]

\* the categories the extractor is told to use
TARGET_TYPES ==
    {s_military_base, t_airfield, t_ammunition_depot, s_fuel_depot, s_oil_refinery,
     t_power_infrastructure, t_naval, t_radar, s_command_post, t_transport,
     t_industrial, t_residential, s_other}

\* the record carries a target_type string that is none of the categories
Unrecognised(a) ==
    /\ Get(a, "target_type", None).t = "str"
    /\ Get(a, "target_type", None).s \notin TARGET_TYPES

\* C17: a pair in which a record has an unrecognised target_type string is
\* found type-compatible
C17_UnrecognisedIsWildcard ==
    (pc = "matched" /\ (Unrecognised(pair[1]) \/ Unrecognised(pair[2])))
        => verdict.same_target_type[1]

---------------------------------------------------------------------------
(* Properties of _cross_channel_dedup *)

\* C8: two messages of one channel and one day are never placed in the
\* same cluster, whatever other messages the list holds
C8_SameSourceApart ==
    pc = "stage1_done" =>
        \A q \in 1..Len(msg_clusters) :
            \A x, y \in Range(msg_clusters[q].members) :
                (x < y /\ DayOf(messages[x]) = DayOf(messages[y]))
                => messages[x].channel # messages[y].channel

\* a list as a multiset: how often each value occurs
BagOf(seq) == [x \in Range(seq) |-> Cardinality({k \in DOMAIN seq : seq[k] = x})]

\* the orderings of a list
Orderings(msgs) ==
    {ListOf(Len(msgs), LAMBDA k : msgs[p[k]]) :
        p \in {f \in [DOMAIN msgs -> DOMAIN msgs] : Range(f) = DOMAIN msgs}}

\* the clusters cs over the list msgs as a multiset of multisets of messages
GroupingOf(msgs, cs) ==
    BagOf(ListOf(Len(cs), LAMBDA q :
        BagOf(ListOf(Len(cs[q].members), LAMBDA m : msgs[cs[q].members[m]]))))

\* the returned messages of the clusters cs, as a multiset
OutputOf(msgs, cs) == BagOf(ListOf(Len(cs), LAMBDA q : BestOf(msgs, cs[q])))

\* two messages of one day, from different channels, whose word sets reach
\* the similarity threshold
NearCopies(a, b) ==
    /\ DayOf(a) = DayOf(b)
    /\ a.channel # b.channel
    /\ 10 * Cardinality(_word_set(a.text) \cap _word_set(b.text))
           >= DEDUP_SIMILARITY * Cardinality(_word_set(a.text) \cup _word_set(b.text))
    /\ _word_set(a.text) # {} /\ _word_set(b.text) # {}

\* no message of the list is a near copy of two messages that are not near
\* copies of each other
NearCopiesTransitive(msgs) ==
    \A x, y, z \in DOMAIN msgs :
        (x # y /\ y # z /\ x # z /\ NearCopies(msgs[x], msgs[y])
            /\ NearCopies(msgs[y], msgs[z]))
        => NearCopies(msgs[x], msgs[z])

\* C11: every ordering of the caller's messages gives the same grouping into
\* clusters and the same returned messages, up to output order
C11_OrderIndependent ==
    pc = "stage1_done" =>
        \A other \in Orderings(messages) :
            /\ GroupingOf(other, AllClusters(other))
                   = GroupingOf(messages, msg_clusters)
            /\ OutputOf(other, AllClusters(other)) = BagOf(result)

\* C11, amended: when being near copies is transitive among the messages,
\* every ordering of the caller's messages gives the same grouping into
\* clusters, and so the same merged channels for every cluster
C11_OrderIndependentWhenTransitive ==
    (pc = "stage1_done" /\ NearCopiesTransitive(messages)) =>
        \A other \in Orderings(messages) :
            GroupingOf(other, AllClusters(other))
                = GroupingOf(messages, msg_clusters)

\* three messages, two of them near copies in one cluster, the third apart
C11_Witness ==
    /\ pc = "stage1_done"
    /\ NearCopiesTransitive(messages)
    /\ Len(messages) = 3
    /\ Len(msg_clusters) = 2
    /\ \E q \in 1..2 : Len(msg_clusters[q].members) = 2
    /\ messages[1] # messages[2] /\ messages[2] # messages[3]

\* the positions of cluster q in the caller's list, and its anchor
MsgMembers(q) == Range(msg_clusters[q].members)
Anchor(q) == msg_clusters[q].members[1]

\* position y was taken by a cluster opened before cluster q
UsedBefore(q, y) ==
    \E q2 \in DOMAIN msg_clusters : Anchor(q2) < Anchor(q) /\ y \in MsgMembers(q2)

\* C20: every message is in exactly one cluster; a cluster holds its anchor
\* and exactly the later, unused messages of the anchor's day that come from
\* another channel and reach the similarity threshold with the anchor; no
\* cluster holds messages of two days
C20_ClusterMembership ==
    pc = "stage1_done" =>
        /\ \A x \in DOMAIN messages :
               Cardinality({q \in DOMAIN msg_clusters : x \in MsgMembers(q)}) = 1
        /\ \A q \in DOMAIN msg_clusters :
               /\ \A y \in MsgMembers(q) :
                      Anchor(q) <= y /\ DayOf(messages[y]) = DayOf(messages[Anchor(q)])
               /\ \A y \in DOMAIN messages :
                      y > Anchor(q) =>
                          (y \in MsgMembers(q)
                              <=> /\ NearCopies(messages[Anchor(q)], messages[y])
                                  /\ ~UsedBefore(q, y))

\* three messages of one day, all near copies in text: the second joined the
\* first, the third is of the first's channel and stayed alone
C20_Witness ==
    /\ pc = "stage1_done"
    /\ Len(messages) = 3 /\ Len(msg_clusters) = 2
    /\ MsgMembers(1) = {1, 2} /\ MsgMembers(2) = {3}
    /\ messages[1].channel = messages[3].channel
    /\ NearCopies(messages[2], messages[3])

\* the returned message r is message m with the channels S as annotation
CopyOf(r, m, S) ==
    /\ r.channel = m.channel /\ r.date = m.date /\ r.text = m.text
    /\ r._source_channels = S

\* C21: one message is returned per cluster: a copy of a member whose text
\* no other member's exceeds in length, annotated with the set of the
\* members' channels; a cluster of one returns its own message annotated
\* with its own channel
C21_OnePerCluster ==
    pc = "stage1_done" =>
        /\ Len(result) = Len(msg_clusters)
        /\ \A q \in DOMAIN msg_clusters :
               /\ \E m \in MsgMembers(q) :
                      /\ CopyOf(result[q], messages[m],
                                {messages[y].channel : y \in MsgMembers(q)})
                      /\ \A y \in MsgMembers(q) :
                             Len(messages[y].text) <= Len(messages[m].text)
               /\ MsgMembers(q) = {Anchor(q)} =>
                      CopyOf(result[q], messages[Anchor(q)],
                             {messages[Anchor(q)].channel})

\* a cluster of two whose longer text is not the anchor's, next to a cluster
\* of one
C21_Witness ==
    /\ pc = "stage1_done"
    /\ Len(msg_clusters) = 2
    /\ Len(msg_clusters[1].members) = 2 /\ Len(msg_clusters[2].members) = 1
    /\ Len(messages[msg_clusters[1].members[2]].text) > Len(messages[Anchor(1)].text)
    /\ result[1].text = messages[msg_clusters[1].members[2]].text

---------------------------------------------------------------------------
(* Claims about the merged record of a cluster (dedup._merge_cluster) *)

DescriptiveFields ==
    {"city", "region", "facility_name", "target_type", "damage_summary",
     "original_text"}

\* the number of characters of a record's damage_summary, none when the
\* field is absent, null or empty
SummaryChars(r) ==
    IF Truthy(Get(r, "damage_summary", Empty)) THEN Len(r["damage_summary"].s) ELSE 0

\* the members of cluster q whose damage_summary is the longest
LongestSummary(q) ==
    {m \in MembersOf(q) :
        \A k \in MembersOf(q) : SummaryChars(Rec(k)) <= SummaryChars(Rec(m))}

\* C22: the descriptive fields of a merged record (city, region,
\* facility_name, target_type, damage_summary, original_text) are those of
\* a cluster member with the longest damage_summary
C22_DescriptiveFromLongest ==
    pc = "done" =>
        \A q \in 1..Len(clusters) :
            \E m \in LongestSummary(q) :
                \A f \in DescriptiveFields : clusters[q].merged[f] = Rec(m)[f]

\* a cluster whose first member has a shorter damage_summary and another
\* target_type than the member the merged record describes
C22_Witness ==
    /\ pc = "done" /\ run = 1
    /\ \E q \in 1..Len(clusters) :
           LET first == MinOf(MembersOf(q))
           IN  /\ first \notin LongestSummary(q)
               /\ clusters[q].merged["target_type"] # Rec(first)["target_type"]
               /\ clusters[q].merged["damage_summary"] # Rec(first)["damage_summary"]

\* the calendar day a date value parses to
OrdOf(v) == _parse_date(v).ord

EventDays(q) == {OrdOf(Rec(m)["date"]) : m \in MembersOf(q)}

AllDated(q) == \A m \in MembersOf(q) : _parse_date(Get(Rec(m), "date", Empty)).ok

\* C23: for every cluster, the merged record's date is the earliest event
\* date among the members and its last_event_date is the latest event date
\* among the members
C23_EarliestAndLatest ==
    pc = "done" =>
        \A q \in 1..Len(clusters) :
            (Cardinality(MembersOf(q)) > 1 /\ AllDated(q)) =>
                /\ _parse_date(clusters[q].merged["date"]).ok
                /\ \A d \in EventDays(q) : OrdOf(clusters[q].merged["date"]) <= d
                /\ _parse_date(clusters[q].merged["last_event_date"]).ok
                /\ \A d \in EventDays(q) :
                       d <= OrdOf(clusters[q].merged["last_event_date"])

\* the confidence level of a record that spells it in lower case
LevelOf(r) ==
    LET c == Get(r, "confidence", Str(s_low))
    IN  IF c = Str(s_high) THEN 3 ELSE IF c = Str(s_medium) THEN 2 ELSE 1

\* the members of cluster q that have both coordinates
Located(q) == {m \in MembersOf(q) : HasCoords(Rec(m))}

\* the members of S of the highest confidence level in S
TopLevel(S) == {m \in S : \A k \in S : LevelOf(Rec(k)) <= LevelOf(Rec(m))}

\* C24: for every cluster, the merged record's confidence is the highest
\* confidence level present among the members (low < medium < high), and
\* its latitude/longitude are those of a highest-confidence member among
\* the members that have coordinates
C24_BestConfidenceAndCoords ==
    pc = "done" =>
        \A q \in 1..Len(clusters) :
            /\ \E m \in TopLevel(MembersOf(q)) :
                   clusters[q].merged["confidence"] = Rec(m)["confidence"]
            /\ Located(q) # {} =>
                   \E m \in TopLevel(Located(q)) :
                       /\ clusters[q].merged["latitude"] = Rec(m)["latitude"]
                       /\ clusters[q].merged["longitude"] = Rec(m)["longitude"]

\* a cluster whose first member is of medium confidence with coordinates
\* and whose merged record has high confidence and the coordinates of a
\* high-confidence member at another place
C24_Witness ==
    /\ pc = "done" /\ run = 1
    /\ \E q \in 1..Len(clusters) :
           LET first == Rec(MinOf(MembersOf(q)))
           IN  /\ first["confidence"] = Str(s_medium) /\ HasCoords(first)
               /\ clusters[q].merged["confidence"] = Str(s_high)
               /\ HasCoords(clusters[q].merged)
               /\ clusters[q].merged["latitude"] # first["latitude"]

\* the source identifiers a member lists
SourcesOf(r) ==
    IF Get(r, "source_channel", None).t = "str"
    THEN ChannelNames(r["source_channel"]) ELSE {}

StrictlyAscending(seq) ==
    \A k \in 1..(Len(seq) - 1) : StrLess(seq[k], seq[k + 1])

\* C25: for every cluster, the merged record's source_channel is the
\* deduplicated, sorted union of all source identifiers of all members
C25_SourcesUnion ==
    pc = "done" =>
        \A q \in 1..Len(clusters) :
            LET all == UNION {SourcesOf(Rec(m)) : m \in MembersOf(q)}
                out == clusters[q].merged["source_channel"]
            IN  /\ out.t = "str"
                /\ IF all = {} THEN out.s = <<>>
                   ELSE LET listed == SplitSep(out.s, CommaSpace)
                        IN  Range(listed) = all /\ StrictlyAscending(listed)

\* a cluster whose first member names one source, whose members name the
\* other source more than once, and whose merged record lists both in order
C25_Witness ==
    /\ pc = "done" /\ run = 1
    /\ \E q \in 1..Len(clusters) :
           /\ Rec(MinOf(MembersOf(q)))["source_channel"] = Str(ch_oper)
           /\ Cardinality({m \in MembersOf(q) : ch_astrapress \in SourcesOf(Rec(m))}) > 1
           /\ clusters[q].merged["source_channel"]
                  = Str(ch_astrapress \o CommaSpace \o ch_oper)

---------------------------------------------------------------------------
(* Claims about the alias table *)

\* "voronizh", "voronezh"
n_voronizh == <<118, 111, 114, 111, 110, 105, 122, 104>>
n_voronezh == <<118, 111, 114, 111, 110, 101, 122, 104>>

\* the canonical entry of a normalized name: the one equivalence the
\* pipeline's own test names, the Ukrainian spelling of Voronezh
Canonical(name) == IF name = n_voronizh THEN n_voronezh ELSE name

\* two normalized city names that differ as strings and have one canonical
\* entry
AliasPair(a, b) ==
    /\ CityOf(a) # <<>> /\ CityOf(b) # <<>>
    /\ CityOf(a) # CityOf(b)
    /\ Canonical(CityOf(a)) = Canonical(CityOf(b))

\* C27: two normalized city names that differ as strings but map to the
\* same canonical entry of the alias table are equivalent
\* (dedup._cities_equivalent returns true) and count as a strong location
\* match
C27_AliasEquivalent ==
    (pc = "matched" /\ AliasPair(pair[1], pair[2])) =>
        /\ verdict.cities_equivalent.ok
        /\ verdict.cities_equivalent.value
        /\ verdict.locations_match = <<TRUE, TRUE>>

---------------------------------------------------------------------------
(* Claims about the stage-1 similarity *)

\* the tokens of a text once one-character words are dropped and the others
\* cut to their first six characters.  Two texts with the same such set
\* have the same token set for every prefix length up to six and every
\* minimum length from two to six
CutTokens(text) == {Prefix(w, 6) : w \in {x \in _word_set(text) : Len(x) >= 2}}

\* the two texts differ at most in word endings beyond the prefix and in
\* short noise tokens
SameButEndingsAndNoise(a, b) == CutTokens(a) = CutTokens(b) /\ CutTokens(a) # {}

\* C28: each token of the stage-1 similarity is a normalized word truncated
\* to a fixed short prefix length, tokens shorter than a minimum length are
\* dropped, so two texts that differ only in word suffixes beyond the
\* prefix or in short noise tokens have similarity 1
C28_PrefixTokens ==
    (pc = "compared" /\ SameButEndingsAndNoise(pair[1], pair[2]))
        => verdict.num = verdict.den

---------------------------------------------------------------------------
(* Claims about the extraction *)

IsPrefixOf(a, b) == Len(a) <= Len(b) /\ SubSeq(b, 1, Len(a)) = a

\* C26: re-running extraction preserves the results of previous runs:
\* what incidents.jsonl holds is never removed, every step leaves the
\* lines written so far at the head of the file
C26_EarlierRunsKept == [][IsPrefixOf(outfile, outfile')]_vars

\* the last API call of a finished _send_batch failed with a rate-limit or
\* API error
FailedThroughout(f) ==
    f.at # "pending" /\ f.oks = 0 /\ f.cause \in {"RateLimitError", "APIError"}

SendBatchBounded(f) ==
    /\ f.calls <= MAX_RETRIES
    /\ f.at = "pending" => (f.calls < MAX_RETRIES /\ f.oks = 0)
    /\ f.oks <= 1
    /\ FailedThroughout(f) => (f.at = "returned" /\ f.value = <<>>)

AllSent == \A b \in DOMAIN futures : futures[b].at # "pending"

\* C29: _send_batch always terminates having made at most
\* config.MAX_RETRIES API calls for its batch: it makes no call after a
\* successful one, and when every attempt fails with a rate-limit or API
\* error it returns an empty list rather than raising or retrying further
C29_SendBatchTerminates ==
    /\ [](\A b \in DOMAIN futures : SendBatchBounded(futures[b]))
    /\ (pc = "collect") ~> AllSent

\* a _send_batch call that returned the empty list after MAX_RETRIES
\* rate-limited calls
C29_Witness ==
    \E b \in DOMAIN futures :
        /\ futures[b].at = "returned" /\ futures[b].value = <<>>
        /\ futures[b].calls = MAX_RETRIES /\ futures[b].cause = "RateLimitError"

\* how often x occurs in a list
CountIn(seq, x) == Cardinality({k \in DOMAIN seq : seq[k] = x})

\* the batches whose call returned and whose result the main thread took
Taken == {b \in DOMAIN futures : futures[b].at = "returned" /\ futures[b].collected}

\* how often the calls of the batches 1..b of S returned x
RECURSIVE ReturnedTimes(_, _, _)
ReturnedTimes(x, S, b) ==
    IF b = 0 THEN 0
    ELSE (IF b \in S THEN CountIn(futures[b].value, x) ELSE 0)
             + ReturnedTimes(x, S, b - 1)

EveryIncident ==
    Range(outfile) \cup Range(all_incidents)
        \cup UNION {Range(futures[b].value) : b \in DOMAIN futures}

\* C30: for every interleaving and completion order of the batch workers,
\* each incident returned by a batch that completes without exception is
\* written exactly once to incidents.jsonl and appears exactly once in the
\* returned list, and a batch that raises does not prevent the results of
\* the other batches from being collected
C30_EachIncidentOnce ==
    pc \in {"collect", "extracted"} =>
        /\ \A x \in EveryIncident :
               /\ CountIn(outfile, x) = ReturnedTimes(x, Taken, Len(futures))
               /\ CountIn(all_incidents, x) = ReturnedTimes(x, Taken, Len(futures))
        /\ pc = "extracted" =>
               \A b \in DOMAIN futures :
                   futures[b].at = "returned" => futures[b].collected

\* a finished run whose second batch raised and whose first batch returned
\* two incidents, both in the file and in the returned list
C30_Witness ==
    /\ pc = "extracted" /\ Len(futures) = 2
    /\ futures[2].at = "raised"
    /\ futures[1].at = "returned" /\ Len(futures[1].value) = 2
    /\ outfile = futures[1].value /\ all_incidents = futures[1].value
    /\ completed_count = 1

====
